---- MODULE Spec2Model ----
(***************************************************************************)
(* Value-resolution engine of zfig/confts: resolveValues walks a schema    *)
(* tree, picks for every Field Node the first defined candidate in the     *)
(* order override > env > secretFile > file > initial > default, validates *)
(* it, and records a sourceDecision event per field.                       *)
(*                                                                         *)
(* JavaScript values are pairs <<tag, payload>>: <<"string", s>>,          *)
(* <<"number", digits>>, <<"boolean", "true">>, <<"undefined", "">> and    *)
(* <<"object", f>> with f a function from keys to values.  Filesystem      *)
(* paths are sequences of segments; an absolute path starts with "/".      *)
(* File contents are sequences of pieces, whitespace pieces being the      *)
(* members of Whitespace.  A template-literal message is kept as the       *)
(* sequence of its pieces.                                                 *)
(***************************************************************************)
EXTENDS Integers, Sequences, FiniteSets, TLC

VARIABLES pc, schema, options, fs, idx, resolved, sources, events,
          returned, thrown, toStringOut, debugOut,
          heap, snapshots, callLog, prior, resolveOptions, loaders, loaderCalls, run

\* One resolveValues call: its arguments, the walk's locals, the collector's
\* private array (events) and what the caller gets back.
walkVars == <<pc, schema, options, fs, idx, resolved, sources, events,
              returned, thrown, toStringOut, debugOut>>

\* What lives outside a single resolveValues call: the arrays handed out by
\* getEvents (heap, snapshots), the log of collector calls, the outcomes of
\* the caller's earlier calls, the argument and loader table of resolve(), and
\* the loader invocations made so far; and the state of one service.run().
outerVars == <<heap, snapshots, callLog, prior, resolveOptions, loaders, loaderCalls, run>>

vars == <<walkVars, outerVars>>

\* Deepest nesting of Object Nodes in the generated schemas.
MaxDepth == 3

\* Most add* calls made on one collector.
MaxCalls == 3

\* Most getEvents() calls made on one collector.
MaxSnapshots == 2

\* Most resolveValues calls a caller has completed before the current one.
MaxPriorCalls == 2

\* Most signals delivered to the process during one run().
MaxSignals == 3

(************************** JavaScript values ******************************)
Undefined == <<"undefined", "">>
Null == <<"null", "">>
Str(s) == <<"string", s>>
Num(n) == <<"number", n>>
Bool(b) == <<"boolean", b>>
Obj(f) == <<"object", f>>
FsPath(segs) == <<"path", segs>>

IsUndefined(v) == v[1] = "undefined"
IsObject(v) == v[1] = "object"

\* Not produced yet: a token sequence, or a record.
None == <<"none">>
Absent == [absent |-> TRUE]

REDACTED == "[REDACTED]"

(***************************** Schema nodes ********************************)
ZObject(keys, shape) == [type |-> "object", keys |-> keys, shape |-> shape]
Meta(env, secretFile, sensitive, default) ==
    [env |-> env, secretFile |-> secretFile, sensitive |-> sensitive, default |-> default]

NoMeta == Meta(Undefined, Undefined, Undefined, Undefined)

\* z.literal(v): carries no metadata
ZLiteral(v) == [type |-> "literal", values |-> <<v>>, meta |-> NoMeta]

\* type.meta({env, secretFile, sensitive, default})
ZField(type, meta) == [type |-> type, meta |-> meta]

getDefType(node) == node.type

isZodObject(node) == getDefType(node) = "object"

isZodLiteral(node) == getDefType(node) = "literal"

getLiteralValue(node) == node.values[1]

\* undefined when none of the four entries is set; optional chaining
\* (meta?.env) then reads undefined from it.
getMeta(node) ==
    LET m == node.meta IN
    IF IsUndefined(m.env) /\ IsUndefined(m.secretFile)
       /\ IsUndefined(m.sensitive) /\ IsUndefined(m.default)
    THEN [undef |-> TRUE, env |-> Undefined, secretFile |-> Undefined,
          sensitive |-> Undefined, default |-> Undefined]
    ELSE [undef |-> FALSE, env |-> m.env, secretFile |-> m.secretFile,
          sensitive |-> m.sensitive, default |-> m.default]

(****************************** Helpers ************************************)
RECURSIVE JoinWith(_, _)
JoinWith(seq, sep) ==
    IF Len(seq) = 0 THEN ""
    ELSE IF Len(seq) = 1 THEN seq[1]
    ELSE seq[1] \o sep \o JoinWith(Tail(seq), sep)

\* A path rendered by its last key alone.
PathJoinDot_LastKey(path) == IF Len(path) = 0 THEN "" ELSE path[Len(path)]

\* path.join(".")
PathJoinDot(path) == JoinWith(path, ".")

\* path.reduce((acc, key) => acc && typeof acc === "object" ? acc[key] : undefined, bundle)
RECURSIVE PathReduce(_, _)
PathReduce(path, acc) ==
    IF Len(path) = 0 THEN acc
    ELSE PathReduce(Tail(path),
                    IF IsObject(acc)
                    THEN (IF path[1] \in DOMAIN acc[2] THEN acc[2][path[1]] ELSE Undefined)
                    ELSE Undefined)

isAbsolute(p) == Len(p) > 0 /\ p[1] = "/"

join(base, rel) == base \o rel

\* The text of a filesystem path.
PathText(p) ==
    IF isAbsolute(p) THEN "/" \o JoinWith(Tail(p), "/") ELSE JoinWith(p, "/")

Whitespace == {" ", "\n"}

RECURSIVE TrimStart(_)
TrimStart(pieces) ==
    IF Len(pieces) > 0 /\ pieces[1] \in Whitespace THEN TrimStart(Tail(pieces)) ELSE pieces

RECURSIVE TrimEnd(_)
TrimEnd(pieces) ==
    IF Len(pieces) > 0 /\ pieces[Len(pieces)] \in Whitespace
    THEN TrimEnd(SubSeq(pieces, 1, Len(pieces) - 1))
    ELSE pieces

\* String.prototype.trim
trim(pieces) == JoinWith(TrimEnd(TrimStart(pieces)), "")

loadEnv(name, env) == IF name \in DOMAIN env THEN env[name] ELSE Undefined

\* loadSecretFile taking a file that is empty after trimming for a missing one.
loadSecretFile_EmptyIsAbsent(path, files) ==
    IF PathText(path) \in DOMAIN files /\ trim(files[PathText(path)]) # ""
    THEN Str(trim(files[PathText(path)]))
    ELSE Undefined

\* readFileSync(path).trim(), undefined when the read throws
loadSecretFile(path, files) ==
    IF PathText(path) \in DOMAIN files THEN Str(trim(files[PathText(path)])) ELSE Undefined

JSONstringify(v) ==
    IF v[1] = "string" THEN "\"" \o v[2] \o "\"" ELSE v[2]

\* formatValue testing for undefined before the sensitivity flag.
formatValue_UndefinedFirst(value, sensitive) ==
    IF IsUndefined(value) THEN "undefined"
    ELSE IF sensitive THEN REDACTED
    ELSE JSONstringify(value)

formatValue(value, sensitive) ==
    IF sensitive THEN REDACTED
    ELSE IF IsUndefined(value) THEN "undefined"
    ELSE JSONstringify(value)

EmptyMap == [k \in {} |-> Undefined]

Range(seq) == {seq[i] : i \in 1..Len(seq)}

(************************** External validator *****************************)
\* Strings that Number() turns into a number other than NaN.
NumericText == {"7", "3000", "8080"}

IssueMessage(expected, received) ==
    "Invalid input: expected " \o expected \o ", received " \o received

\* schema.safeParse(value) for z.string(), z.number() and z.coerce.number()
safeParse(node, value) ==
    IF node.type = "string"
    THEN [success |-> value[1] = "string", data |-> value,
          issue |-> IssueMessage("string", value[1])]
    ELSE IF node.type = "number"
    THEN [success |-> value[1] = "number", data |-> value,
          issue |-> IssueMessage("number", value[1])]
    ELSE \* z.coerce.number(): Number(input)
         IF value[1] = "number"
         THEN [success |-> TRUE, data |-> value, issue |-> ""]
         ELSE IF value[1] = "string" /\ value[2] = ""
         THEN [success |-> TRUE, data |-> Num("0"), issue |-> ""]
         ELSE IF value[1] = "string" /\ value[2] \in NumericText
         THEN [success |-> TRUE, data |-> Num(value[2]), issue |-> ""]
         ELSE [success |-> FALSE, data |-> value,
               issue |-> IssueMessage("number", "NaN")]

(*************************** Diagnostics recorder **************************)
\* addSourceDecision that records nothing.
addSourceDecision_Dropped(evs, key, picked, tried) == evs

\* addSourceDecision putting the event in front (unshift) instead of pushing.
addSourceDecision_Unshift(evs, key, picked, tried) ==
    <<[type |-> "sourceDecision", key |-> key, picked |-> picked, tried |-> tried]>> \o evs

addSourceDecision(evs, key, picked, tried) ==
    Append(evs, [type |-> "sourceDecision", key |-> key, picked |-> picked, tried |-> tried])

addConfigPath(evs, picked, candidates, reason) ==
    Append(evs, [type |-> "configPath", picked |-> picked, candidates |-> candidates,
                 reason |-> reason])

\* addLoader writing over the latest event instead of pushing.
addLoader_ReplacesLast(evs, format, used, reason) ==
    LET event == IF IsUndefined(reason)
                 THEN [type |-> "loader", format |-> format, used |-> used]
                 ELSE [type |-> "loader", format |-> format, used |-> used, reason |-> reason[2]]
    IN IF Len(evs) = 0 THEN <<event>> ELSE [evs EXCEPT ![Len(evs)] = event]

\* reason is set on the event only when one is passed
addLoader(evs, format, used, reason) ==
    Append(evs, IF IsUndefined(reason)
                THEN [type |-> "loader", format |-> format, used |-> used]
                ELSE [type |-> "loader", format |-> format, used |-> used, reason |-> reason[2]])

\* meta is set on the event only when one is passed
addNote(evs, message, meta) ==
    Append(evs, IF IsUndefined(meta)
                THEN [type |-> "note", message |-> message]
                ELSE [type |-> "note", message |-> message, meta |-> meta])

\* [...this.events]
getEvents(evs) == [i \in 1..Len(evs) |-> evs[i]]

\* The array [...this.events] creates, as the identities of its elements: the
\* copy is a new array holding the same event objects, the i-th of which is
\* the object the i-th add* call pushed.
SpreadEvents(evs) == [i \in 1..Len(evs) |-> i]

(******************************* Errors ************************************)
ConfigError(message, path, sensitive) ==
    [name |-> "ConfigError", message |-> message, path |-> path, sensitive |-> sensitive]

\* The richer error variant: the trace accumulated so far rides on the error.
WithDiagnostics(err, evs) ==
    [name |-> err.name, message |-> err.message, path |-> err.path,
     sensitive |-> err.sensitive, diagnostics |-> getEvents(evs)]

(**************************** Resolution walker ****************************)
RECURSIVE LeavesOf(_, _), LeavesFrom(_, _, _)
\* The leaves below a node in the order the object branch visits them.
LeavesOf(node, path) ==
    IF isZodObject(node) THEN LeavesFrom(node, path, 1)
    ELSE <<[path |-> path, node |-> node]>>
LeavesFrom(node, path, i) ==
    IF i > Len(node.keys) THEN <<>>
    ELSE LeavesOf(node.shape[node.keys[i]], Append(path, node.keys[i]))
         \o LeavesFrom(node, path, i + 1)

NoSource == "<no source>"

TryOverride(overrideValue) ==
    IF ~IsUndefined(overrideValue)
    THEN [value |-> overrideValue, source |-> "override", tried |-> <<"override">>]
    ELSE [value |-> Undefined, source |-> NoSource, tried |-> <<>>]

\* The env lookup naming its source with the value it found.
TryEnv_TagCarriesValue(st, meta, env) ==
    IF IsUndefined(st.value) /\ ~IsUndefined(meta.env)
    THEN LET envValue == loadEnv(meta.env[2], env)
             envSource == "env:" \o meta.env[2] \o "=" \o envValue[2]
         IN IF ~IsUndefined(envValue)
            THEN [value |-> envValue, source |-> envSource, tried |-> Append(st.tried, envSource)]
            ELSE [value |-> st.value, source |-> st.source, tried |-> Append(st.tried, envSource)]
    ELSE st

TryEnv(st, meta, env) ==
    IF IsUndefined(st.value) /\ ~IsUndefined(meta.env)
    THEN LET envSource == "env:" \o meta.env[2]
             envValue == loadEnv(meta.env[2], env)
         IN IF ~IsUndefined(envValue)
            THEN [value |-> envValue, source |-> envSource, tried |-> Append(st.tried, envSource)]
            ELSE [value |-> st.value, source |-> st.source, tried |-> Append(st.tried, envSource)]
    ELSE st

TrySecretFile(st, meta, secretsPath, files) ==
    IF IsUndefined(st.value) /\ ~IsUndefined(meta.secretFile)
    THEN LET secretFilePath == IF isAbsolute(meta.secretFile[2])
                               THEN meta.secretFile[2]
                               ELSE join(secretsPath, meta.secretFile[2])
             secretSource == "secretFile:" \o PathText(secretFilePath)
             secretValue == loadSecretFile(secretFilePath, files)
         IN IF ~IsUndefined(secretValue)
            THEN [value |-> secretValue, source |-> secretSource, tried |-> Append(st.tried, secretSource)]
            ELSE [value |-> st.value, source |-> st.source, tried |-> Append(st.tried, secretSource)]
    ELSE st

TryFile(st, fileValue, configPath) ==
    IF IsUndefined(st.value) /\ ~IsUndefined(fileValue)
    THEN LET fileSource == IF ~IsUndefined(configPath) /\ configPath[2] # ""
                           THEN "file:" \o configPath[2] ELSE "file"
         IN [value |-> fileValue, source |-> fileSource, tried |-> Append(st.tried, fileSource)]
    ELSE st

TryInitial(st, initialValue) ==
    IF IsUndefined(st.value) /\ ~IsUndefined(initialValue)
    THEN [value |-> initialValue, source |-> "initial", tried |-> Append(st.tried, "initial")]
    ELSE st

\* The default listed as tried for every field that declares one.
TryDefault_AlwaysTried(st, meta) ==
    IF ~IsUndefined(meta.default)
    THEN IF IsUndefined(st.value)
         THEN [value |-> meta.default, source |-> "default", tried |-> Append(st.tried, "default")]
         ELSE [value |-> st.value, source |-> st.source, tried |-> Append(st.tried, "default")]
    ELSE st

TryDefault(st, meta) ==
    IF IsUndefined(st.value) /\ ~IsUndefined(meta.default)
    THEN [value |-> meta.default, source |-> "default", tried |-> Append(st.tried, "default")]
    ELSE st

\* PickSource with the file value consulted before the secret file.
PickSource_FileBeforeSecret(node, path, opts, files) ==
    LET meta == getMeta(node)
        overrideValue == PathReduce(path, opts.override)
        initialValue == PathReduce(path, opts.initialValues)
        fileValue == PathReduce(path, opts.fileValues)
    IN TryDefault(
         TryInitial(
           TrySecretFile(
             TryFile(
               TryEnv(TryOverride(overrideValue), meta, opts.env),
               fileValue, opts.configPath),
             meta, opts.secretsPath, files),
           initialValue),
         meta)

\* The source cascade of the field branch: the value, its source and the tried list.
PickSource(node, path, opts, files) ==
    LET meta == getMeta(node)
        overrideValue == PathReduce(path, opts.override)
        initialValue == PathReduce(path, opts.initialValues)
        fileValue == PathReduce(path, opts.fileValues)
    IN TryDefault(
         TryInitial(
           TryFile(
             TrySecretFile(
               TryEnv(TryOverride(overrideValue), meta, opts.env),
               meta, opts.secretsPath, files),
             fileValue, opts.configPath),
           initialValue),
         meta)

isSensitive(node) ==
    LET meta == getMeta(node) IN
    IF IsUndefined(meta.sensitive) THEN FALSE ELSE meta.sensitive[2] = "true"

MissingMessage(pathStr, value, sensitive) ==
    <<"Missing required config at '", pathStr, "' (value: ", formatValue(value, sensitive), ")">>

InvalidMessage(pathStr, issue, value, sensitive) ==
    <<"Invalid config at '", pathStr, "': ", issue, " (value: ", formatValue(value, sensitive), ")">>

\* The field branch returning the candidate as found instead of the
\* validator's output.
ResolveField_RawValue(node, path, opts, files) ==
    LET pathStr == PathJoinDot(path)
        sensitive == isSensitive(node)
        st == PickSource(node, path, opts, files)
        result == safeParse(node, st.value)
    IN IF IsUndefined(st.value)
       THEN [threw |-> TRUE,
             error |-> ConfigError(MissingMessage(pathStr, st.value, sensitive), pathStr, sensitive)]
       ELSE IF ~result.success
       THEN [threw |-> TRUE,
             error |-> ConfigError(InvalidMessage(pathStr, result.issue, st.value, sensitive),
                                   pathStr, sensitive)]
       ELSE [threw |-> FALSE, key |-> pathStr, value |-> st.value,
             source |-> st.source, tried |-> st.tried,
             sources |-> (pathStr :> st.source)]

\* The field branch falling back to the default when the validator rejects
\* the value picked.
ResolveField_FallsBackToDefault(node, path, opts, files) ==
    LET pathStr == PathJoinDot(path)
        sensitive == isSensitive(node)
        st == PickSource(node, path, opts, files)
        result == safeParse(node, st.value)
        default == getMeta(node).default
    IN IF IsUndefined(st.value)
       THEN [threw |-> TRUE,
             error |-> ConfigError(MissingMessage(pathStr, st.value, sensitive), pathStr, sensitive)]
       ELSE IF ~result.success /\ ~IsUndefined(default) /\ safeParse(node, default).success
       THEN [threw |-> FALSE, key |-> pathStr, value |-> safeParse(node, default).data,
             source |-> "default", tried |-> Append(st.tried, "default"),
             sources |-> (pathStr :> "default")]
       ELSE IF ~result.success
       THEN [threw |-> TRUE,
             error |-> ConfigError(InvalidMessage(pathStr, result.issue, st.value, sensitive),
                                   pathStr, sensitive)]
       ELSE [threw |-> FALSE, key |-> pathStr, value |-> result.data,
             source |-> st.source, tried |-> st.tried,
             sources |-> (pathStr :> st.source)]

\* The field branch of resolveValue: a thrown ConfigError or a ResolveResult.
ResolveField(node, path, opts, files) ==
    LET pathStr == PathJoinDot(path)
        sensitive == isSensitive(node)
        st == PickSource(node, path, opts, files)
        result == safeParse(node, st.value)
    IN IF IsUndefined(st.value)
       THEN [threw |-> TRUE,
             error |-> ConfigError(MissingMessage(pathStr, st.value, sensitive), pathStr, sensitive)]
       ELSE IF ~result.success
       THEN [threw |-> TRUE,
             error |-> ConfigError(InvalidMessage(pathStr, result.issue, st.value, sensitive),
                                   pathStr, sensitive)]
       ELSE [threw |-> FALSE, key |-> pathStr, value |-> result.data,
             source |-> st.source, tried |-> st.tried,
             sources |-> (pathStr :> st.source)]

(************************ Resolved object accessors ************************)
ValueAt(res, path) ==
    LET i == CHOOSE j \in 1..Len(res) : res[j].path = path IN res[i].value

RECURSIVE BuildTree(_, _, _)
\* The nested result the object branch assembles from its children's values.
BuildTree(node, path, res) ==
    IF isZodObject(node)
    THEN Obj([k \in Range(node.keys) |-> BuildTree(node.shape[k], Append(path, k), res)])
    ELSE ValueAt(res, path)

RECURSIVE redactValue_SkipsNested(_, _)
\* redactValue that redacts sensitive leaves at the top level only.
redactValue_SkipsNested(node, value) ==
    IF isZodObject(node) /\ IsObject(value)
    THEN Obj([k \in Range(node.keys) |->
                IF isZodObject(node.shape[k])
                THEN (IF k \in DOMAIN value[2] THEN value[2][k] ELSE Undefined)
                ELSE redactValue_SkipsNested(node.shape[k],
                            IF k \in DOMAIN value[2] THEN value[2][k] ELSE Undefined)])
    ELSE IF isSensitive(node) THEN Str(REDACTED)
    ELSE value

RECURSIVE redactValue(_, _)
redactValue(node, value) ==
    IF isZodObject(node) /\ IsObject(value)
    THEN Obj([k \in Range(node.keys) |->
                redactValue(node.shape[k],
                            IF k \in DOMAIN value[2] THEN value[2][k] ELSE Undefined)])
    ELSE IF isSensitive(node) THEN Str(REDACTED)
    ELSE value

RECURSIVE buildConfigDebugObject_LastKeySource(_, _, _, _)
\* buildConfigDebugObject looking a field's source up under its last key.
buildConfigDebugObject_LastKeySource(node, value, srcs, path) ==
    IF isZodObject(node) /\ IsObject(value)
    THEN Obj([k \in Range(node.keys) |->
                buildConfigDebugObject_LastKeySource(node.shape[k],
                                       IF k \in DOMAIN value[2] THEN value[2][k] ELSE Undefined,
                                       srcs, Append(path, k))])
    ELSE IF isZodLiteral(node)
    THEN Obj([value |-> value, source |-> Str("literal")])
    ELSE LET pathStr == PathJoinDot_LastKey(path)
             displayValue == IF isSensitive(node) THEN Str(REDACTED) ELSE value
         IN Obj([value |-> displayValue,
                 source |-> IF pathStr \in DOMAIN srcs THEN Str(srcs[pathStr]) ELSE Undefined])

RECURSIVE buildConfigDebugObject(_, _, _, _)
buildConfigDebugObject(node, value, srcs, path) ==
    IF isZodObject(node) /\ IsObject(value)
    THEN Obj([k \in Range(node.keys) |->
                buildConfigDebugObject(node.shape[k],
                                       IF k \in DOMAIN value[2] THEN value[2][k] ELSE Undefined,
                                       srcs, Append(path, k))])
    ELSE IF isZodLiteral(node)
    THEN Obj([value |-> value, source |-> Str("literal")])
    ELSE LET pathStr == PathJoinDot(path)
             displayValue == IF isSensitive(node) THEN Str(REDACTED) ELSE value
         IN Obj([value |-> displayValue,
                 source |-> IF pathStr \in DOMAIN srcs THEN Str(srcs[pathStr]) ELSE Undefined])

RECURSIVE stringify(_, _), stringifyFrom(_, _, _)
\* JSON.stringify of a value shaped like the schema, as the sequence of its
\* tokens; keys come in the order redactValue inserted them.
stringify(node, value) ==
    IF isZodObject(node) /\ IsObject(value)
    THEN <<"{">> \o stringifyFrom(node, value, 1) \o <<"}">>
    ELSE <<JSONstringify(value)>>
stringifyFrom(node, value, i) ==
    \* properties holding undefined or a function are left out
    LET keys == SelectSeq(node.keys, LAMBDA k : value[2][k][1] \notin {"undefined", "function"})
    IN IF i > Len(keys) THEN <<>>
       ELSE LET k == keys[i] IN
            (IF i > 1 THEN <<",">> ELSE <<>>)
            \o <<"\"" \o k \o "\"", ":">>
            \o stringify(node.shape[k], value[2][k])
            \o stringifyFrom(node, value, i + 1)

(******************* Properties attached to the result *********************)
SOURCES_SYMBOL == "Symbol(confts.sources)"
DIAGNOSTICS_SYMBOL == "Symbol(confts.diagnostics)"

IsSymbol(name) == name \in {SOURCES_SYMBOL, DIAGNOSTICS_SYMBOL}

Fn(name) == <<"function", name>>

\* The properties resolveValues defines on the result, in the order of the
\* Object.defineProperty calls.
Attached ==
    << "toString", SOURCES_SYMBOL, DIAGNOSTICS_SYMBOL, "toSourceString",
       "getDiagnostics", "toDebugObject" >>

\* The own properties of the object the object branch builds by assignment.
PlainObject(tree) ==
    [k \in DOMAIN tree[2] |-> [value |-> tree[2][k], enumerable |-> TRUE, writable |-> TRUE]]

\* Object.defineProperty(obj, name, { value, enumerable: false, writable: false }):
\* the property is created, or an existing one of that name is redefined.
defineProperty(obj, name, value) ==
    [n \in DOMAIN obj \cup {name} |->
       IF n = name THEN [value |-> value, enumerable |-> FALSE, writable |-> FALSE]
       ELSE obj[n]]

RECURSIVE defineAll(_, _, _)
defineAll(obj, names, i) ==
    IF i > Len(names) THEN obj
    ELSE defineAll(defineProperty(obj, names[i], Fn(names[i])), names, i + 1)

\* Object.keys(result)
ObjectKeys(props) == {n \in DOMAIN props : props[n].enumerable /\ ~IsSymbol(n)}

\* What reading the result's schema keys gives once the properties are attached.
ReadBack(sch, props) == Obj([k \in Range(sch.keys) |-> props[k].value])

(************************* The call as a function **************************)
RECURSIVE resolveValueFrom(_, _, _, _, _)
\* The walk from leaf i on; w holds the result, source map and collector
\* content built so far.
resolveValueFrom(leaves, i, opts, files, w) ==
    IF i > Len(leaves) THEN w
    ELSE IF isZodLiteral(leaves[i].node)
    THEN resolveValueFrom(leaves, i + 1, opts, files,
           [w EXCEPT !.resolved = Append(@, [path |-> leaves[i].path,
                                             value |-> getLiteralValue(leaves[i].node)])])
    ELSE LET r == ResolveField(leaves[i].node, leaves[i].path, opts, files) IN
         IF r.threw
         THEN [w EXCEPT !.threw = TRUE, !.error = r.error]
         ELSE resolveValueFrom(leaves, i + 1, opts, files,
                [w EXCEPT !.resolved = Append(@, [path |-> leaves[i].path, value |-> r.value]),
                          !.sources = r.sources @@ @,
                          !.events = addSourceDecision(@, r.key, r.source, r.tried)])

\* resolveValues(schema, options) with the collector content it starts from:
\* what the caller gets, and what the collector holds afterwards.
resolveValues(sch, opts, files, collected) ==
    LET w == resolveValueFrom(LeavesOf(sch, <<>>), 1, opts, files,
                              [threw |-> FALSE, error |-> Absent, resolved |-> <<>>,
                               sources |-> EmptyMap, events |-> collected])
    IN IF w.threw
       THEN [threw |-> TRUE, error |-> WithDiagnostics(w.error, w.events), events |-> w.events]
       ELSE [threw |-> FALSE,
             value |-> ReadBack(sch, defineAll(PlainObject(BuildTree(sch, <<>>, w.resolved)),
                                               Attached, 1)),
             sources |-> w.sources, diagnostics |-> getEvents(w.events), events |-> w.events]

(******************************* Inputs ************************************)
KeyNames == <<"a", "b", "c", "d", "e", "f">>

RECURSIVE Nest(_, _)
\* schema({ k1: { k2: ... leaf } })
Nest(path, leaf) ==
    IF Len(path) = 0 THEN leaf
    ELSE ZObject(<<path[1]>>, (path[1] :> Nest(Tail(path), leaf)))

RECURSIVE At(_, _)
\* A bundle holding v at path.
At(path, v) ==
    IF Len(path) = 0 THEN v ELSE Obj((path[1] :> At(Tail(path), v)))

RelSecret == <<"sec">>
AbsSecret == <<"/", "run", "secrets", "n">>
DefaultSecretsPath == <<"/", "secrets">>

FieldVariants ==
    { ZField("string", Meta(Str("C_ENV"), FsPath(RelSecret), Bool("true"), Str("dflt"))),
      ZField("string", Meta(Str("C_ENV"), FsPath(RelSecret), Bool("false"), Undefined)),
      ZField("number", Meta(Str("C_ENV"), Undefined, Undefined, Num("3000"))),
      ZField("string", NoMeta),
      ZField("coerceNumber", Meta(Undefined, FsPath(AbsSecret), Bool("true"), Undefined)) }

EnvPool(name) == { EmptyMap, (name :> Str("7")), (name :> Str("")) }

SecretContents == { <<" ", "hunter2", "\n">>, <<" ", "\n">> }

FsPool(paths) ==
    { EmptyMap } \cup { [p \in paths |-> c] : c \in SecretContents }

ConfigPathPool == { Undefined, Str("config.json") }

Options(initialValues, fileValues, env, override, configPath) ==
    [initialValues |-> initialValues, fileValues |-> fileValues, env |-> env,
     secretsPath |-> DefaultSecretsPath, override |-> override, configPath |-> configPath,
     _collector |-> Undefined]

OverridePool(path) ==
    { Undefined, At(path, Str("ov")), At(path, Num("7")), Obj((path[1] :> Str("x"))) }

FileValuesPool(path) == { Undefined, At(path, Str("fv")), At(path, Num("8080")) }

InitialValuesPool(path) == { Undefined, At(path, Str("iv")), Obj(EmptyMap) }

DeepFsPool == FsPool({PathText(join(DefaultSecretsPath, RelSecret)), PathText(AbsSecret)})

\* One Field Node of every variant under 1..MaxDepth Object Nodes, with every
\* combination of candidates at its path.
DeepInputs ==
    \E n \in 1..MaxDepth, fld \in FieldVariants :
      LET path == SubSeq(KeyNames, 1, n) IN
      \E ov \in OverridePool(path), fv \in FileValuesPool(path),
         iv \in InitialValuesPool(path), env \in EnvPool("C_ENV"),
         files \in DeepFsPool, cp \in ConfigPathPool :
        /\ schema = Nest(path, fld)
        /\ options = Options(iv, fv, env, ov, cp)
        /\ fs = files

\* schema({ name: "svc", port: field(number, default 3000),
\*          db: { host: field(string, env DB_HOST),
\*                pass: field(string, secretFile "pw", sensitive) }, rev: 1 })
ServiceSchema ==
    ZObject(<<"name", "port", "db", "rev">>,
            [name |-> ZLiteral(Str("svc")),
             port |-> ZField("number", Meta(Undefined, Undefined, Undefined, Num("3000"))),
             db |-> ZObject(<<"host", "pass">>,
                            [host |-> ZField("string", Meta(Str("DB_HOST"), Undefined, Undefined, Undefined)),
                             pass |-> ZField("string", Meta(Undefined, FsPath(<<"pw">>), Bool("true"), Undefined))]),
             rev |-> ZLiteral(Num("1"))])

ServiceInputs ==
    \E ov \in { Undefined,
                Obj([name |-> Str("evil"), rev |-> Num("2")]),
                Obj([port |-> Num("7")]),
                Obj([db |-> Obj([pass |-> Str("ovpass")])]),
                Obj([db |-> Str("x")]) },
       fv \in { Undefined,
                Obj([port |-> Str("bad"), db |-> Obj([host |-> Str("filehost")])]),
                Obj([name |-> Str("evil"),
                     db |-> Obj([host |-> Str("h"), pass |-> Str("filepass")])]) },
       iv \in { Undefined, Obj([db |-> Obj([host |-> Str("inithost")]), name |-> Str("evil")]) },
       env \in { EmptyMap, [DB_HOST |-> Str("envhost")], [DB_HOST |-> Undefined] },
       files \in FsPool({PathText(join(DefaultSecretsPath, <<"pw">>))}),
       cp \in ConfigPathPool :
      /\ schema = ServiceSchema
      /\ options = Options(iv, fv, env, ov, cp)
      /\ fs = files

\* schema({ name: "svc", toString: field(string, default "text"),
\*          host: field(string, env DB_HOST) }): a schema key that is also the
\* name of a property resolveValues attaches.
AccessorKeySchema ==
    ZObject(<<"name", "toString", "host">>,
            ("name" :> ZLiteral(Str("svc")))
            @@ ("toString" :> ZField("string", Meta(Undefined, Undefined, Undefined, Str("text"))))
            @@ ("host" :> ZField("string", Meta(Str("DB_HOST"), Undefined, Undefined, Undefined))))

AccessorKeyInputs ==
    \E ov \in { Undefined, Obj(("toString" :> Str("ov"))) },
       fv \in { Undefined, Obj(("host" :> Str("filehost"))), Obj(("toString" :> Num("7"))) },
       iv \in { Undefined, Obj(("host" :> Str("inithost"))) },
       env \in { EmptyMap, [DB_HOST |-> Str("envhost")], [DB_HOST |-> Undefined] },
       cp \in ConfigPathPool :
      /\ schema = AccessorKeySchema
      /\ options = Options(iv, fv, env, ov, cp)
      /\ fs = EmptyMap

\* schema({ name: "svc", "a.b": field(string, default "flat"),
\*          a: { b: field(string, env A_B) } }): a key that holds a dot next
\* to a nested key of the same dotted name.
DottedKeySchema ==
    ZObject(<<"name", "a.b", "a">>,
            ("name" :> ZLiteral(Str("svc")))
            @@ ("a.b" :> ZField("string", Meta(Undefined, Undefined, Undefined, Str("flat"))))
            @@ ("a" :> ZObject(<<"b">>,
                               [b |-> ZField("string", Meta(Str("A_B"), Undefined, Undefined, Undefined))])))

DottedKeyInputs ==
    \E ov \in { Undefined, Obj(("a.b" :> Str("ov"))), Obj([a |-> Obj([b |-> Str("ov")])]) },
       fv \in { Undefined, Obj([a |-> Obj([b |-> Str("filehost")])]), Obj(("a.b" :> Num("7"))) },
       iv \in { Undefined, Obj([a |-> Obj([b |-> Str("init")])]) },
       env \in { EmptyMap, [A_B |-> Str("envvalue")], [A_B |-> Undefined] },
       cp \in ConfigPathPool :
      /\ schema = DottedKeySchema
      /\ options = Options(iv, fv, env, ov, cp)
      /\ fs = EmptyMap

(******************************* Actions ***********************************)
Leaves == LeavesOf(schema, <<>>)

Init ==
    /\ (DeepInputs \/ ServiceInputs)
    /\ pc = "idle"
    /\ idx = 0
    /\ resolved = <<>>
    /\ sources = EmptyMap
    /\ events = <<>>
    /\ returned = Absent
    /\ thrown = Absent
    /\ toStringOut = None
    /\ debugOut = Absent
    /\ heap = <<>>
    /\ snapshots = <<>>
    /\ callLog = <<>>
    /\ prior = <<>>
    /\ resolveOptions = Absent
    /\ loaders = <<>>
    /\ loaderCalls = <<>>
    /\ run = Absent

\* The same call on a schema one of whose keys is named like an accessor.
InitAccessorKeys ==
    /\ AccessorKeyInputs
    /\ pc = "idle"
    /\ idx = 0
    /\ resolved = <<>>
    /\ sources = EmptyMap
    /\ events = <<>>
    /\ returned = Absent
    /\ thrown = Absent
    /\ toStringOut = None
    /\ debugOut = Absent
    /\ heap = <<>>
    /\ snapshots = <<>>
    /\ callLog = <<>>
    /\ prior = <<>>
    /\ resolveOptions = Absent
    /\ loaders = <<>>
    /\ loaderCalls = <<>>
    /\ run = Absent

\* The same call on a schema with a dotted key.
InitDottedKeys ==
    /\ DottedKeyInputs
    /\ pc = "idle"
    /\ idx = 0
    /\ resolved = <<>>
    /\ sources = EmptyMap
    /\ events = <<>>
    /\ returned = Absent
    /\ thrown = Absent
    /\ toStringOut = None
    /\ debugOut = Absent
    /\ heap = <<>>
    /\ snapshots = <<>>
    /\ callLog = <<>>
    /\ prior = <<>>
    /\ resolveOptions = Absent
    /\ loaders = <<>>
    /\ loaderCalls = <<>>
    /\ run = Absent

\* The bundles a caller passes with the service schema, call after call.
CallPool ==
    { Options(Undefined, fv, env, ov, Undefined) :
        ov \in { Undefined, Obj([port |-> Num("7")]) },
        fv \in { Undefined, Obj([port |-> Str("bad"), db |-> Obj([host |-> Str("filehost")])]) },
        env \in { EmptyMap, [DB_HOST |-> Str("envhost")] } }

\* A caller about to make the first of several calls on one schema.
InitCalls ==
    /\ schema = ServiceSchema
    /\ options \in CallPool
    /\ fs = (PathText(join(DefaultSecretsPath, <<"pw">>)) :> <<"hunter2", "\n">>)
    /\ pc = "idle"
    /\ idx = 0
    /\ resolved = <<>>
    /\ sources = EmptyMap
    /\ events = <<>>
    /\ returned = Absent
    /\ thrown = Absent
    /\ toStringOut = None
    /\ debugOut = Absent
    /\ heap = <<>>
    /\ snapshots = <<>>
    /\ callLog = <<>>
    /\ prior = <<>>
    /\ resolveOptions = Absent
    /\ loaders = <<>>
    /\ loaderCalls = <<>>
    /\ run = Absent

\* resolveValues entered with one collector serving every call.
resolveValuesCall_SharedCollector ==
    /\ pc = "idle"
    /\ pc' = "walking"
    /\ idx' = 1
    /\ resolved' = <<>>
    /\ sources' = EmptyMap
    /\ UNCHANGED <<events, schema, options, fs, returned, thrown, toStringOut, debugOut>>
    /\ UNCHANGED outerVars

\* resolveValues entered with a collector of its own whatever it is passed.
resolveValuesCall_OwnCollector ==
    /\ pc = "idle"
    /\ pc' = "walking"
    /\ idx' = 1
    /\ resolved' = <<>>
    /\ sources' = EmptyMap
    /\ events' = <<>>
    /\ UNCHANGED <<schema, options, fs, returned, thrown, toStringOut, debugOut>>
    /\ UNCHANGED outerVars

\* resolveValues is entered: the collector is the one passed in, or a new
\* one; the walk starts at the root with an empty result and source map.
resolveValuesCall ==
    /\ pc = "idle"
    /\ pc' = "walking"
    /\ idx' = 1
    /\ resolved' = <<>>
    /\ sources' = EmptyMap
    /\ events' = IF IsUndefined(options._collector) THEN <<>> ELSE events
    /\ UNCHANGED <<schema, options, fs, returned, thrown, toStringOut, debugOut>>
    /\ UNCHANGED outerVars

\* The literal branch yielding to an override at the literal's path.
resolveValueLiteral_OverrideWins ==
    /\ pc = "walking"
    /\ idx <= Len(Leaves)
    /\ isZodLiteral(Leaves[idx].node)
    /\ resolved' = Append(resolved,
                     [path |-> Leaves[idx].path,
                      value |-> IF IsUndefined(PathReduce(Leaves[idx].path, options.override))
                                THEN getLiteralValue(Leaves[idx].node)
                                ELSE PathReduce(Leaves[idx].path, options.override)])
    /\ idx' = idx + 1
    /\ UNCHANGED <<pc, schema, options, fs, sources, events, returned, thrown,
                   toStringOut, debugOut>>
    /\ UNCHANGED outerVars

\* resolveValue reaches a Literal Node.
resolveValueLiteral ==
    /\ pc = "walking"
    /\ idx <= Len(Leaves)
    /\ isZodLiteral(Leaves[idx].node)
    /\ resolved' = Append(resolved, [path |-> Leaves[idx].path,
                                     value |-> getLiteralValue(Leaves[idx].node)])
    /\ idx' = idx + 1
    /\ UNCHANGED <<pc, schema, options, fs, sources, events, returned, thrown,
                   toStringOut, debugOut>>
    /\ UNCHANGED outerVars

\* The field branch keeping only the latest child's source map.
resolveValueField_SourcesReplaced ==
    /\ pc = "walking"
    /\ idx <= Len(Leaves)
    /\ ~isZodLiteral(Leaves[idx].node)
    /\ LET r == ResolveField(Leaves[idx].node, Leaves[idx].path, options, fs) IN
       IF r.threw
       THEN /\ pc' = "thrown"
            /\ thrown' = WithDiagnostics(r.error, events)
            /\ UNCHANGED <<idx, resolved, sources, events>>
       ELSE /\ events' = addSourceDecision(events, r.key, r.source, r.tried)
            /\ resolved' = Append(resolved, [path |-> Leaves[idx].path, value |-> r.value])
            /\ sources' = r.sources
            /\ idx' = idx + 1
            /\ UNCHANGED <<pc, thrown>>
    /\ UNCHANGED <<schema, options, fs, returned, toStringOut, debugOut>>
    /\ UNCHANGED outerVars

\* The field branch recording its decision before the missing/invalid checks.
resolveValueField_RecordsFirst ==
    /\ pc = "walking"
    /\ idx <= Len(Leaves)
    /\ ~isZodLiteral(Leaves[idx].node)
    /\ LET r == ResolveField(Leaves[idx].node, Leaves[idx].path, options, fs)
           st == PickSource(Leaves[idx].node, Leaves[idx].path, options, fs)
       IN
       IF r.threw
       THEN /\ pc' = "thrown"
            /\ events' = addSourceDecision(events, r.error.path, st.source, st.tried)
            /\ thrown' = WithDiagnostics(r.error, events')
            /\ UNCHANGED <<idx, resolved, sources>>
       ELSE /\ events' = addSourceDecision(events, r.key, r.source, r.tried)
            /\ resolved' = Append(resolved, [path |-> Leaves[idx].path, value |-> r.value])
            /\ sources' = r.sources @@ sources
            /\ idx' = idx + 1
            /\ UNCHANGED <<pc, thrown>>
    /\ UNCHANGED <<schema, options, fs, returned, toStringOut, debugOut>>
    /\ UNCHANGED outerVars

\* The field branch swallowing a failure and going on to the next leaf.
resolveValueField_KeepsWalking ==
    /\ pc = "walking"
    /\ idx <= Len(Leaves)
    /\ ~isZodLiteral(Leaves[idx].node)
    /\ LET r == ResolveField(Leaves[idx].node, Leaves[idx].path, options, fs) IN
       IF r.threw
       THEN /\ thrown' = WithDiagnostics(r.error, events)
            /\ resolved' = Append(resolved, [path |-> Leaves[idx].path, value |-> Undefined])
            /\ idx' = idx + 1
            /\ UNCHANGED <<pc, sources, events>>
       ELSE /\ events' = addSourceDecision(events, r.key, r.source, r.tried)
            /\ resolved' = Append(resolved, [path |-> Leaves[idx].path, value |-> r.value])
            /\ sources' = r.sources @@ sources
            /\ idx' = idx + 1
            /\ UNCHANGED <<pc, thrown>>
    /\ UNCHANGED <<schema, options, fs, returned, toStringOut, debugOut>>
    /\ UNCHANGED outerVars

\* resolveValue reaches a Field Node: it throws, or records the decision.
resolveValueField ==
    /\ pc = "walking"
    /\ idx <= Len(Leaves)
    /\ ~isZodLiteral(Leaves[idx].node)
    /\ LET r == ResolveField(Leaves[idx].node, Leaves[idx].path, options, fs) IN
       IF r.threw
       THEN /\ pc' = "thrown"
            /\ thrown' = WithDiagnostics(r.error, events)
            /\ UNCHANGED <<idx, resolved, sources, events>>
       ELSE /\ events' = addSourceDecision(events, r.key, r.source, r.tried)
            /\ resolved' = Append(resolved, [path |-> Leaves[idx].path, value |-> r.value])
            /\ sources' = r.sources @@ sources
            /\ idx' = idx + 1
            /\ UNCHANGED <<pc, thrown>>
    /\ UNCHANGED <<schema, options, fs, returned, toStringOut, debugOut>>
    /\ UNCHANGED outerVars

\* The walk is over: the accessors are attached and the result returned.
resolveValuesReturn ==
    /\ pc = "walking"
    /\ idx > Len(Leaves)
    /\ pc' = "returned"
    /\ LET props == defineAll(PlainObject(BuildTree(schema, <<>>, resolved)), Attached, 1)
       IN returned' = [value |-> ReadBack(schema, props),
                       props |-> props,
                       sources |-> sources,
                       diagnostics |-> getEvents(events)]
    /\ UNCHANGED <<schema, options, fs, idx, resolved, sources, events, thrown,
                   toStringOut, debugOut>>
    /\ UNCHANGED outerVars

\* result.toString()
toString ==
    /\ pc = "returned"
    /\ toStringOut' = stringify(schema, redactValue(schema, returned.value))
    /\ UNCHANGED <<pc, schema, options, fs, idx, resolved, sources, events,
                   returned, thrown, debugOut>>
    /\ UNCHANGED outerVars

\* result.toDebugObject({ includeDiagnostics })
toDebugObject ==
    /\ pc = "returned"
    /\ \E includeDiagnostics \in BOOLEAN :
         debugOut' =
           IF includeDiagnostics
           THEN [config |-> buildConfigDebugObject(schema, returned.value, returned.sources, <<>>),
                 diagnostics |-> returned.diagnostics]
           ELSE [config |-> buildConfigDebugObject(schema, returned.value, returned.sources, <<>>)]
    /\ UNCHANGED <<pc, schema, options, fs, idx, resolved, sources, events,
                   returned, thrown, toStringOut>>
    /\ UNCHANGED outerVars

(*********************** The collector used on its own **********************)
\* A collector just constructed, in the hands of a caller.
InitRecorder ==
    /\ pc = "collector"
    /\ schema = ServiceSchema
    /\ options = Options(Undefined, Undefined, EmptyMap, Undefined, Undefined)
    /\ fs = EmptyMap
    /\ idx = 0
    /\ resolved = <<>>
    /\ sources = EmptyMap
    /\ events = <<>>
    /\ returned = Absent
    /\ thrown = Absent
    /\ toStringOut = None
    /\ debugOut = Absent
    /\ heap = <<>>
    /\ snapshots = <<>>
    /\ callLog = <<>>
    /\ prior = <<>>
    /\ resolveOptions = Absent
    /\ loaders = <<>>
    /\ loaderCalls = <<>>
    /\ run = Absent

Logged(op, args) == Append(callLog, [op |-> op, args |-> args])

recorderFrame ==
    UNCHANGED <<pc, schema, options, fs, idx, resolved, sources, returned, thrown,
                toStringOut, debugOut, prior, resolveOptions, loaders,
                loaderCalls, run>>

\* collector.addConfigPath(picked, candidates, reason)
addConfigPathCall ==
    /\ pc = "collector"
    /\ Len(callLog) < MaxCalls
    /\ \E picked \in {Null, Str("config.json")} :
         LET candidates == IF picked = Null THEN <<>> ELSE <<"option:config.json">>
             reason == IF picked = Null THEN "no config path, skipping file loading"
                       ELSE "picked from configPath option"
         IN /\ events' = addConfigPath(events, picked, candidates, reason)
            /\ callLog' = Logged("addConfigPath", <<picked, candidates, reason>>)
    /\ UNCHANGED <<heap, snapshots>>
    /\ recorderFrame

\* collector.addLoader(format, used, reason?)
addLoaderCall ==
    /\ pc = "collector"
    /\ Len(callLog) < MaxCalls
    /\ \E reason \in {Undefined, Str("unsupported extension, supported: none")} :
         /\ events' = addLoader(events, ".json", IsUndefined(reason), reason)
         /\ callLog' = Logged("addLoader", <<".json", IsUndefined(reason), reason>>)
    /\ UNCHANGED <<heap, snapshots>>
    /\ recorderFrame

\* collector.addSourceDecision(key, picked, tried)
addSourceDecisionCall ==
    /\ pc = "collector"
    /\ Len(callLog) < MaxCalls
    /\ events' = addSourceDecision(events, "host", "default", <<"env:HOST", "default">>)
    /\ callLog' = Logged("addSourceDecision", <<"host", "default", <<"env:HOST", "default">>>>)
    /\ UNCHANGED <<heap, snapshots>>
    /\ recorderFrame

\* collector.addNote(message, meta?)
addNoteCall ==
    /\ pc = "collector"
    /\ Len(callLog) < MaxCalls
    /\ \E meta \in {Undefined, Obj([size |-> Num("1024")])} :
         /\ events' = addNote(events, "file loaded", meta)
         /\ callLog' = Logged("addNote", <<"file loaded", meta>>)
    /\ UNCHANGED <<heap, snapshots>>
    /\ recorderFrame

\* collector.getEvents(): a new array, handed to the caller.
getEventsCall ==
    /\ pc = "collector"
    /\ Len(snapshots) < MaxSnapshots
    /\ heap' = Append(heap, SpreadEvents(events))
    /\ snapshots' = Append(snapshots, Len(heap) + 1)
    /\ UNCHANGED <<events, callLog>>
    /\ recorderFrame

\* An element the caller puts into an array itself.
Foreign == 0

\* The caller empties a returned array (snapshot.length = 0), or pushes an
\* element of its own onto an emptied one.
callerMutatesArray ==
    /\ pc = "collector"
    /\ \E k \in 1..Len(snapshots) :
         LET ref == snapshots[k]
         IN \/ /\ Len(heap[ref]) > 0
               /\ heap' = [heap EXCEPT ![ref] = <<>>]
            \/ /\ Len(heap[ref]) = 0
               /\ heap' = [heap EXCEPT ![ref] = <<Foreign>>]
    /\ UNCHANGED <<events, snapshots, callLog>>
    /\ recorderFrame

\* What an assignment through a returned array does to an event object:
\* snapshot[j].reason = ..., snapshot[j].picked = ..., snapshot[j].message = ...
Assigned(e) ==
    IF e.type = "sourceDecision" THEN [e EXCEPT !.picked = "tampered"]
    ELSE IF e.type = "note" THEN [e EXCEPT !.message = "tampered"]
    ELSE IF e.type = "configPath" THEN [e EXCEPT !.reason = "tampered"]
    ELSE [e EXCEPT !.format = "tampered"]

\* The caller assigns to a field of the first event object of a returned
\* array; the object is the one the collector's own array holds.
callerMutatesEvent ==
    /\ pc = "collector"
    /\ \E k \in 1..Len(snapshots) :
         LET arr == heap[snapshots[k]]
         IN /\ Len(arr) > 0
            /\ arr[1] # Foreign
            /\ events' = [events EXCEPT ![arr[1]] = Assigned(@)]
    /\ UNCHANGED <<heap, snapshots, callLog>>
    /\ recorderFrame

NextRecorder ==
    \/ addConfigPathCall
    \/ addLoaderCall
    \/ addSourceDecisionCall
    \/ addNoteCall
    \/ getEventsCall
    \/ callerMutatesArray
    \/ callerMutatesEvent

SpecRecorder == InitRecorder /\ [][NextRecorder]_vars

Next ==
    \/ resolveValuesCall
    \/ resolveValueLiteral
    \/ resolveValueField
    \/ resolveValuesReturn
    \/ toString
    \/ toDebugObject

Spec == Init /\ [][Next]_vars

SpecAccessorKeys == InitAccessorKeys /\ [][Next]_vars

SpecDottedKeys == InitDottedKeys /\ [][Next]_vars

\* The caller keeps the outcome of the call that has ended and calls
\* resolveValues again on the same schema with bundles of its choice.  What
\* the ended call left behind (its locals, its collector) stays where it is.
callerCallsAgain ==
    /\ pc \in {"returned", "thrown"}
    /\ Len(prior) < MaxPriorCalls
    /\ prior' = Append(prior, [options |-> options, fs |-> fs,
                               outcome |-> IF pc = "returned" THEN returned ELSE thrown])
    /\ options' \in CallPool
    /\ pc' = "idle"
    /\ returned' = Absent
    /\ thrown' = Absent
    /\ toStringOut' = None
    /\ debugOut' = Absent
    /\ UNCHANGED <<schema, fs, idx, resolved, sources, events>>
    /\ UNCHANGED <<heap, snapshots, callLog, resolveOptions, loaders, loaderCalls, run>>

NextCalls ==
    \/ Next
    \/ callerCallsAgain

SpecCalls == InitCalls /\ [][NextCalls]_vars

(******************************** resolve() ********************************)
\* node:path extname on the config file names the callers below pass.
extname(p) ==
    CASE p \in {"config.json", "env.json", "missing.json", "bad.json"} -> ".json"
      [] p = "app.YAML" -> ".YAML"
      [] OTHER -> ""

\* String.prototype.toLowerCase on the extensions extname yields above.
toLowerCase(s) ==
    CASE s = ".YAML" -> ".yaml"
      [] s = ".Json" -> ".json"
      [] OTHER -> s

\* if (x) on a string | undefined
Truthy(v) == ~IsUndefined(v) /\ v[2] # ""

\* loaders.get(extension.toLowerCase()); the registry keeps insertion order
getLoader(registry, extension) ==
    LET hits == SelectSeq(registry, LAMBDA e : e.ext = toLowerCase(extension))
    IN IF Len(hits) = 0 THEN Undefined ELSE Str(hits[1].loader)

\* registerLoader storing the extension as it was written.
registerLoader_CaseSensitive(registry, extension, loader) ==
    IF \E i \in 1..Len(registry) : registry[i].ext = extension
    THEN [i \in 1..Len(registry) |->
            IF registry[i].ext = extension THEN [ext |-> extension, loader |-> loader]
            ELSE registry[i]]
    ELSE Append(registry, [ext |-> extension, loader |-> loader])

\* loaders.set(extension.toLowerCase(), loader): a key already in the Map
\* keeps its place and gets the new loader, a new key goes last
registerLoader(registry, extension, loader) ==
    LET key == toLowerCase(extension) IN
    IF \E i \in 1..Len(registry) : registry[i].ext = key
    THEN [i \in 1..Len(registry) |->
            IF registry[i].ext = key THEN [ext |-> key, loader |-> loader] ELSE registry[i]]
    ELSE Append(registry, [ext |-> key, loader |-> loader])

\* loaders.clear()
clearLoaders(registry) == <<>>

\* Array.from(loaders.keys())
getSupportedExtensions(registry) == [i \in 1..Len(registry) |-> registry[i].ext]

\* A document JSON.parse rejects, with the message of the SyntaxError.
InvalidJson == <<"invalid", "Unexpected end of JSON input">>

\* The JSON loader: undefined when the file cannot be read, a ConfigError
\* thrown when JSON.parse rejects the content, else the record it parses to.
loadJson(path, files) ==
    IF path \notin DOMAIN files THEN [threw |-> FALSE, value |-> Undefined]
    ELSE IF files[path][1] = "invalid"
    THEN [threw |-> TRUE,
          error |-> ConfigError(<<"Invalid JSON in ", path, ": ", files[path][2]>>, path, FALSE)]
    ELSE [threw |-> FALSE, value |-> files[path]]

\* The collector resolve() creates and hands to resolveValues.
Collector == <<"collector", "">>

\* schema({ name: "svc", port: field(number, default 3000),
\*          host: field(string, env DB_HOST) })
ResolveSchema ==
    ZObject(<<"name", "port", "host">>,
            [name |-> ZLiteral(Str("svc")),
             port |-> ZField("number", Meta(Undefined, Undefined, Undefined, Num("3000"))),
             host |-> ZField("string", Meta(Str("DB_HOST"), Undefined, Undefined, Undefined))])

\* The config documents on disk, by file name, as the records they parse to.
ConfigFiles ==
    ("config.json" :> Obj([host |-> Str("filehost"), port |-> Num("8080")]))
    @@ ("env.json" :> Obj([host |-> Str("envfilehost"), name |-> Str("evil")]))
    @@ ("app.YAML" :> Obj([host |-> Str("yamlhost")]))
    @@ ("bad.json" :> InvalidJson)

OptionPathPool ==
    { Undefined, Str(""), Str("config.json"), Str("missing.json"), Str("bad.json"),
      Str("app.YAML"), Str("Procfile") }

EnvPathPool == { Undefined, Str(""), Str("env.json"), Str("missing.json") }

\* The registry after clearLoaders(), and as the package's index leaves it.
RegistryPool == { <<>>, <<[ext |-> ".json", loader |-> "loadJson"]>> }

\* A caller about to call resolve(schema, options).
InitResolve ==
    /\ pc = "resolve"
    /\ schema = ResolveSchema
    /\ \E cp \in OptionPathPool, ep \in EnvPathPool,
          host \in { Undefined, Str("envhost") },
          iv \in { Undefined, Obj([host |-> Str("inithost")]),
                    Obj([host |-> Str("inithost"), port |-> Str("bad")]) } :
         resolveOptions =
           [initialValues |-> iv,
            configPath |-> cp,
            env |-> (IF IsUndefined(ep) THEN EmptyMap ELSE [CONFIG_PATH |-> ep])
                    @@ (IF IsUndefined(host) THEN EmptyMap ELSE [DB_HOST |-> host]),
            override |-> Undefined]
    /\ loaders \in RegistryPool
    /\ loaderCalls = <<>>
    /\ run = Absent
    /\ fs = ConfigFiles
    /\ options = Options(Undefined, Undefined, EmptyMap, Undefined, Undefined)
    /\ idx = 0
    /\ resolved = <<>>
    /\ sources = EmptyMap
    /\ events = <<>>
    /\ returned = Absent
    /\ thrown = Absent
    /\ toStringOut = None
    /\ debugOut = Absent
    /\ heap = <<>>
    /\ snapshots = <<>>
    /\ callLog = <<>>
    /\ prior = <<>>

\* resolve() refusing to go on without a config path.
resolveCall_RequiresPath ==
    /\ pc = "resolve"
    /\ events' = addConfigPath(<<>>, Null, <<>>, "no config path")
    /\ thrown' = WithDiagnostics(ConfigError(<<"No config path given">>, "", FALSE), events')
    /\ pc' = "thrown"
    /\ UNCHANGED <<schema, options, fs, idx, resolved, sources, returned, toStringOut, debugOut>>
    /\ UNCHANGED outerVars

\* resolve() up to the choice of the config path: a new collector, the
\* candidates list, configPath = options.configPath ?? env.CONFIG_PATH and the
\* configPath event.  Without a path the file is skipped and resolveValues is
\* about to be called.
resolveCall ==
    /\ pc = "resolve"
    /\ LET env == resolveOptions.env
           envPath == IF "CONFIG_PATH" \in DOMAIN env THEN env["CONFIG_PATH"] ELSE Undefined
           optionPath == resolveOptions.configPath
           candidates ==
             (IF Truthy(optionPath) THEN <<"option:" \o optionPath[2]>> ELSE <<>>)
             \o (IF Truthy(envPath) THEN <<"env:" \o envPath[2]>> ELSE <<>>)
           configPath == IF ~IsUndefined(optionPath) THEN optionPath ELSE envPath
           reason == IF Truthy(optionPath) THEN "picked from configPath option"
                     ELSE "picked from CONFIG_PATH env"
       IN /\ events' = IF Truthy(configPath)
                       THEN addConfigPath(<<>>, configPath, candidates, reason)
                       ELSE addConfigPath(<<>>, Null, candidates,
                                          "no config path, skipping file loading")
          /\ options' = [initialValues |-> resolveOptions.initialValues,
                         fileValues |-> Undefined,
                         env |-> env,
                         secretsPath |-> DefaultSecretsPath,
                         override |-> resolveOptions.override,
                         configPath |-> configPath,
                         _collector |-> Collector]
          /\ pc' = IF Truthy(configPath) THEN "loading" ELSE "idle"
    /\ UNCHANGED <<schema, fs, idx, resolved, sources, returned, thrown, toStringOut, debugOut>>
    /\ UNCHANGED outerVars

\* resolve() from the extension lookup to the loaded file: no loader for the
\* extension, or a loader that returns undefined, ends the call with a
\* ConfigError carrying the collector's events; an error thrown by the loader
\* leaves resolve() as it is; otherwise resolveValues is about to be called
\* with the loaded record.
resolveLoad ==
    /\ pc = "loading"
    /\ LET configPath == options.configPath[2]
           ext == toLowerCase(extname(configPath))
           loader == getLoader(loaders, ext)
           supported == JoinWith(getSupportedExtensions(loaders), ", ")
           shown == IF supported = "" THEN "none" ELSE supported
       IN IF IsUndefined(loader)
          THEN LET evs == addLoader(events, ext, FALSE,
                                    Str("unsupported extension, supported: " \o shown))
               IN /\ events' = evs
                  /\ UNCHANGED loaderCalls
                  /\ thrown' = WithDiagnostics(
                                 ConfigError(<<"Unsupported config file extension: ", ext,
                                               ". Supported: ", shown,
                                               ". Install @zfig/yaml-loader for YAML support.">>,
                                             configPath, FALSE), evs)
                  /\ pc' = "thrown"
                  /\ UNCHANGED options
          ELSE LET evs == addLoader(events, ext, TRUE, Undefined)
                   loaded == loadJson(configPath, fs)
               IN /\ events' = evs
                  /\ loaderCalls' = Append(loaderCalls, [loader |-> loader[2], path |-> configPath])
                  /\ IF loaded.threw
                     THEN /\ thrown' = loaded.error
                          /\ pc' = "thrown"
                          /\ UNCHANGED options
                     ELSE IF IsUndefined(loaded.value)
                     THEN /\ thrown' = WithDiagnostics(
                                         ConfigError(<<"Config file not found: ", configPath>>,
                                                     configPath, FALSE), evs)
                          /\ pc' = "thrown"
                          /\ UNCHANGED options
                     ELSE /\ options' = [options EXCEPT !.fileValues = loaded.value]
                          /\ pc' = "idle"
                          /\ UNCHANGED thrown
    /\ UNCHANGED <<schema, fs, idx, resolved, sources, returned, toStringOut, debugOut>>
    /\ UNCHANGED <<heap, snapshots, callLog, prior, resolveOptions, loaders, run>>

\* The extensions and loaders the registry's callers use.
ExtensionPool == { ".yaml", ".YAML", ".json", ".Json", ".yml" }

LoaderPool == { "loader1", "loader2" }

\* The loader-registry module just loaded: an empty Map.
InitRegistry ==
    /\ pc = "registry"
    /\ schema = ResolveSchema
    /\ options = Options(Undefined, Undefined, EmptyMap, Undefined, Undefined)
    /\ fs = EmptyMap
    /\ idx = 0
    /\ resolved = <<>>
    /\ sources = EmptyMap
    /\ events = <<>>
    /\ returned = Absent
    /\ thrown = Absent
    /\ toStringOut = None
    /\ debugOut = Absent
    /\ heap = <<>>
    /\ snapshots = <<>>
    /\ callLog = <<>>
    /\ prior = <<>>
    /\ resolveOptions = Absent
    /\ loaders = <<>>
    /\ loaderCalls = <<>>
    /\ run = Absent

\* registerLoader(extension, loader)
registerLoaderCall ==
    /\ pc = "registry"
    /\ Len(callLog) < MaxCalls
    /\ \E extension \in ExtensionPool, loader \in LoaderPool :
         /\ loaders' = registerLoader(loaders, extension, loader)
         /\ callLog' = Logged("registerLoader", <<extension, loader>>)
    /\ UNCHANGED walkVars
    /\ UNCHANGED <<heap, snapshots, prior, resolveOptions, loaderCalls, run>>

\* clearLoaders()
clearLoadersCall ==
    /\ pc = "registry"
    /\ Len(callLog) < MaxCalls
    /\ loaders' = clearLoaders(loaders)
    /\ callLog' = Logged("clearLoaders", <<>>)
    /\ UNCHANGED walkVars
    /\ UNCHANGED <<heap, snapshots, prior, resolveOptions, loaderCalls, run>>

NextRegistry ==
    \/ registerLoaderCall
    \/ clearLoadersCall

SpecRegistry == InitRegistry /\ [][NextRegistry]_vars

NextResolve ==
    \/ resolveCall
    \/ resolveLoad
    \/ Next

SpecResolve == InitResolve /\ [][NextResolve]_vars

(******************************* service.run() *****************************)
Signals == { "SIGTERM", "SIGINT" }

\* How a ServerLike answers listen(options, callback): it calls the callback
\* later, returns a Promise, does both, or throws.
ServerPool == { "callback", "promise", "both", "throws" }

\* service.run(runOptions) has been called with onReady and onShutdown given.
\*   promise         the Promise run() returned, error what it rejected with
\*   listeners       the signals shutdown is registered for (process.once)
\*   listenCallback  the server holds the callback passed to listen
\*   listenPromise   the Promise listen returned, "none" without one
\*   closeCallbacks  callbacks passed to server.close the server still holds
\*   pending         signals delivered to the process and not yet emitted
InitRun ==
    /\ pc = "run"
    /\ schema = ResolveSchema
    /\ options = Options(Undefined, Undefined, EmptyMap, Undefined, Undefined)
    /\ fs = EmptyMap
    /\ idx = 0
    /\ resolved = <<>>
    /\ sources = EmptyMap
    /\ events = <<>>
    /\ returned = Absent
    /\ thrown = Absent
    /\ toStringOut = None
    /\ debugOut = Absent
    /\ heap = <<>>
    /\ snapshots = <<>>
    /\ callLog = <<>>
    /\ prior = <<>>
    /\ resolveOptions = Absent
    /\ loaders = <<>>
    /\ loaderCalls = <<>>
    /\ \E server \in ServerPool :
         run = [phase |-> "called", server |-> server, promise |-> "pending",
                error |-> "", listeners |-> {}, listenCallback |-> FALSE,
                listenPromise |-> "none", closeCallbacks |-> 0, pending |-> <<>>,
                arrived |-> 0, closeCalls |-> 0, closed |-> 0,
                onShutdownCalls |-> 0, onReadyCalls |-> 0]

runFrame ==
    /\ UNCHANGED walkVars
    /\ UNCHANGED <<heap, snapshots, callLog, prior, resolveOptions, loaders, loaderCalls>>

\* resolvePromise() / rejectPromise(err): a settled Promise stays as it is.
resolvePromise(r) == IF r.promise = "pending" THEN [r EXCEPT !.promise = "resolved"] ELSE r

rejectPromise(r, err) ==
    IF r.promise = "pending" THEN [r EXCEPT !.promise = "rejected", !.error = err] ELSE r

\* run() up to the server: the config is resolved and the factory awaited; an
\* error there rejects the Promise of the async function.
runCreate ==
    /\ pc = "run"
    /\ run.phase = "called"
    /\ \/ run' = [run EXCEPT !.phase = "created"]
       \/ run' = [rejectPromise(run, "ConfigError") EXCEPT !.phase = "failed"]
    /\ runFrame

\* The Promise executor: shutdown is registered once for SIGTERM and once for
\* SIGINT, then server.listen(listenOptions, callback) is called; a Promise
\* it returns gets the then/catch reactions, a throw rejects run().
runListen ==
    /\ pc = "run"
    /\ run.phase = "created"
    /\ LET registered == [run EXCEPT !.phase = "listening", !.listeners = Signals] IN
       run' = CASE run.server = "callback" -> [registered EXCEPT !.listenCallback = TRUE]
                [] run.server = "promise" -> [registered EXCEPT !.listenPromise = "pending"]
                [] run.server = "both" -> [registered EXCEPT !.listenCallback = TRUE,
                                                             !.listenPromise = "pending"]
                [] OTHER -> rejectPromise(registered, "listen threw")
    /\ runFrame

\* The server calls the callback passed to listen: onReady runs.
listenCallback ==
    /\ pc = "run"
    /\ run.listenCallback
    /\ run' = [run EXCEPT !.listenCallback = FALSE, !.onReadyCalls = @ + 1]
    /\ runFrame

\* The Promise listen returned is fulfilled: the then reaction runs onReady.
listenThen ==
    /\ pc = "run"
    /\ run.listenPromise = "pending"
    /\ run' = [run EXCEPT !.listenPromise = "fulfilled", !.onReadyCalls = @ + 1]
    /\ runFrame

\* The Promise listen returned is rejected: the catch reaction rejects run().
listenCatch ==
    /\ pc = "run"
    /\ run.listenPromise = "pending"
    /\ run' = rejectPromise([run EXCEPT !.listenPromise = "rejected"], "EADDRINUSE")
    /\ runFrame

\* A SIGTERM or SIGINT is delivered to the process.
signal ==
    /\ pc = "run"
    /\ run.arrived < MaxSignals
    /\ \E sig \in Signals :
         run' = [run EXCEPT !.pending = Append(@, sig), !.arrived = @ + 1]
    /\ runFrame

\* shutdown resolving run() without waiting for the server to close.
shutdown_ResolvesAtOnce ==
    /\ pc = "run"
    /\ run.pending # <<>>
    /\ LET sig == Head(run.pending)
           emitted == [run EXCEPT !.pending = Tail(@)]
       IN run' = IF sig \in run.listeners
                 THEN resolvePromise([emitted EXCEPT !.listeners = @ \ {sig},
                                                     !.closeCalls = @ + 1,
                                                     !.closeCallbacks = @ + 1])
                 ELSE emitted
    /\ runFrame

\* The process emits a delivered signal.  A once-listener registered for it is
\* removed and run: shutdown calls server.close(callback).  Without a listener
\* for it the signal changes nothing in run().
shutdown ==
    /\ pc = "run"
    /\ run.pending # <<>>
    /\ LET sig == Head(run.pending)
           emitted == [run EXCEPT !.pending = Tail(@)]
       IN run' = IF sig \in run.listeners
                 THEN [emitted EXCEPT !.listeners = @ \ {sig},
                                      !.closeCalls = @ + 1,
                                      !.closeCallbacks = @ + 1]
                 ELSE emitted
    /\ runFrame

\* The server has closed and calls a callback passed to close: onShutdown
\* runs, then resolvePromise().
closeCallback ==
    /\ pc = "run"
    /\ run.closeCallbacks > 0
    /\ run' = resolvePromise([run EXCEPT !.closeCallbacks = @ - 1, !.closed = @ + 1,
                                         !.onShutdownCalls = @ + 1])
    /\ runFrame

NextRun ==
    \/ runCreate
    \/ runListen
    \/ listenCallback
    \/ listenThen
    \/ listenCatch
    \/ signal
    \/ shutdown
    \/ closeCallback

SpecRun == InitRun /\ [][NextRun]_vars

\* Node emits every signal delivered to the process.
SpecRunFair == SpecRun /\ WF_vars(shutdown)

(************************ Vocabulary of the properties *********************)
IsField(leaf) == ~isZodLiteral(leaf.node)

FieldIndexes == {i \in 1..Len(Leaves) : IsField(Leaves[i])}

LiteralIndexes == {i \in 1..Len(Leaves) : isZodLiteral(Leaves[i].node)}

\* The leaves whose visit has completed without a throw.
Visited == 1..Len(resolved)

Declared(leaf, entry) == ~IsUndefined(leaf.node.meta[entry])

Sensitive(leaf) == Declared(leaf, "sensitive") /\ leaf.node.meta.sensitive = Bool("true")

RECURSIVE Dotted(_)
\* "k1.k2. ... .kn", built from the last key backwards.
Dotted(path) ==
    IF Len(path) = 1 THEN path[1]
    ELSE Dotted(SubSeq(path, 1, Len(path) - 1)) \o "." \o path[Len(path)]

SecretLocation(leaf) ==
    LET ref == leaf.node.meta.secretFile[2] IN
    IF ref[1] = "/" THEN ref ELSE options.secretsPath \o ref

\* The six candidates of a field, highest priority first, each with the Source
\* Tag it is reported under and whether the source applies to the field.
Candidates(leaf) ==
    << [applies |-> TRUE, tag |-> "override",
        value |-> PathReduce(leaf.path, options.override)],
       [applies |-> Declared(leaf, "env"),
        tag |-> IF Declared(leaf, "env") THEN "env:" \o leaf.node.meta.env[2] ELSE "env",
        value |-> IF Declared(leaf, "env") /\ leaf.node.meta.env[2] \in DOMAIN options.env
                  THEN options.env[leaf.node.meta.env[2]] ELSE Undefined],
       [applies |-> Declared(leaf, "secretFile"),
        tag |-> IF Declared(leaf, "secretFile")
                THEN "secretFile:" \o PathText(SecretLocation(leaf)) ELSE "secretFile",
        value |-> IF Declared(leaf, "secretFile")
                  THEN loadSecretFile(SecretLocation(leaf), fs) ELSE Undefined],
       [applies |-> TRUE,
        tag |-> IF options.configPath = Undefined THEN "file"
                ELSE "file:" \o options.configPath[2],
        value |-> PathReduce(leaf.path, options.fileValues)],
       [applies |-> TRUE, tag |-> "initial",
        value |-> PathReduce(leaf.path, options.initialValues)],
       [applies |-> TRUE, tag |-> "default", value |-> leaf.node.meta.default] >>

Defined(leaf) == {i \in 1..6 : Candidates(leaf)[i].value # Undefined}

\* The position of the first defined candidate, 0 when there is none.
Winner(leaf) ==
    IF Defined(leaf) = {} THEN 0
    ELSE CHOOSE i \in Defined(leaf) : \A j \in Defined(leaf) : i <= j

SourceDecisions(evs) == SelectSeq(evs, LAMBDA e : e.type = "sourceDecision")

\* C1: every resolved Field Node holds the (validated) value of its first
\* defined candidate in the order override > env > secretFile > file >
\* initial > default, and the Source Tag recorded under its field path names
\* that candidate -- during the walk and in the returned object.
C1_PriorityLaw ==
    \A i \in Visited \cap FieldIndexes :
      LET leaf == Leaves[i]
          w == Winner(leaf)
      IN /\ w # 0
         /\ resolved[i].value = safeParse(leaf.node, Candidates(leaf)[w].value).data
         /\ Dotted(leaf.path) \in DOMAIN sources
         /\ sources[Dotted(leaf.path)] = Candidates(leaf)[w].tag
         /\ returned # Absent =>
              /\ PathReduce(leaf.path, returned.value) = resolved[i].value
              /\ returned.sources[Dotted(leaf.path)] = Candidates(leaf)[w].tag

\* A field was resolved from its env var although secret file, file value and
\* default were defined too, and no override was given.
C1_Witness ==
    /\ pc = "returned"
    /\ \E i \in FieldIndexes :
         /\ Winner(Leaves[i]) = 2
         /\ {3, 4, 6} \subseteq Defined(Leaves[i])
         /\ returned.sources[Dotted(Leaves[i].path)] = "env:C_ENV"

\* The Source Tags of the sources that rank strictly above position w and
\* apply to the field.
HigherTags(leaf, w) ==
    {Candidates(leaf)[j].tag : j \in {k \in 1..(w - 1) : Candidates(leaf)[k].applies}}

EventOf(evs, key) ==
    LET ds == SourceDecisions(evs)
    IN ds[CHOOSE j \in 1..Len(ds) : ds[j].key = key]

\* C2: the tried list of a field's sourceDecision event contains every source
\* of strictly higher priority than the winner, plus the winner itself.
C2_TriedExhaustive ==
    \A i \in Visited \cap FieldIndexes :
      LET leaf == Leaves[i]
          w == Winner(leaf)
          e == EventOf(events, Dotted(leaf.path))
      IN HigherTags(leaf, w) \cup {Candidates(leaf)[w].tag} \subseteq Range(e.tried)

FailingLeaf == Leaves[idx]

Pieces(msg) == Range(msg)

\* The leaves of the redacted tree, computed leaf by leaf.
ExpectedDisplay ==
    [i \in 1..Len(Leaves) |->
       [path |-> Leaves[i].path,
        value |-> IF Sensitive(Leaves[i]) THEN Str("[REDACTED]") ELSE resolved[i].value]]

\* C3: the value of a Field Node flagged sensitive never shows in toString(),
\* in toDebugObject() or in the message of a thrown ConfigError; each shows
\* "[REDACTED]" in its place.
C3_RedactionComplete ==
    /\ toStringOut # None =>
         /\ toStringOut = stringify(schema, BuildTree(schema, <<>>, ExpectedDisplay))
         /\ \A i \in FieldIndexes :
              Sensitive(Leaves[i]) => JSONstringify(resolved[i].value) \notin Range(toStringOut)
    /\ debugOut # Absent =>
         \A i \in FieldIndexes :
           Sensitive(Leaves[i]) =>
             PathReduce(Leaves[i].path, debugOut.config)[2].value = Str("[REDACTED]")
    /\ (pc = "thrown" /\ Sensitive(FailingLeaf)) =>
         LET w == Winner(FailingLeaf) IN
         /\ thrown.message[Len(thrown.message) - 1] = "[REDACTED]"
         /\ "undefined" \notin Pieces(thrown.message)
         /\ w # 0 =>
              /\ Candidates(FailingLeaf)[w].value[2] \notin Pieces(thrown.message)
              /\ JSONstringify(Candidates(FailingLeaf)[w].value) \notin Pieces(thrown.message)

\* A sensitive field resolved to the content of its secret file, and both
\* toString() and toDebugObject() were called on the result.
C3_Witness ==
    /\ toStringOut # None
    /\ debugOut # Absent
    /\ \E i \in FieldIndexes :
         /\ Sensitive(Leaves[i])
         /\ resolved[i].value = Str("hunter2")

IsMissingError(err) == err.message[1] = "Missing required config at '"

IsInvalidError(err) == err.message[1] = "Invalid config at '"

\* Some Field Node of the schema has no defined candidate at all.
SomeFieldMissing == \E i \in FieldIndexes : Winner(Leaves[i]) = 0

\* The field paths, in schema order, of the Field Nodes among the first n leaves.
FieldKeysUpTo(n) ==
    LET fields == SelectSeq(SubSeq(Leaves, 1, n), IsField)
    IN [j \in 1..Len(fields) |-> Dotted(fields[j].path)]

DecisionKeys(evs) ==
    LET ds == SourceDecisions(evs) IN [j \in 1..Len(ds) |-> ds[j].key]

\* C4 as stated: when a required field has no defined value, resolveValues
\* throws with no other field's sourceDecision recorded in the collector and
\* no resolved object returned.
C4_NoEffectsBeforeThrow ==
    (pc = "thrown" /\ IsMissingError(thrown)) =>
      /\ SourceDecisions(events) = <<>>
      /\ returned = Absent

\* C4 amended: a schema with a field that has no defined value never yields a
\* resolved object; when the walk throws, nothing is returned, no leaf from the
\* failing one onward is resolved or recorded, and the collector holds exactly
\* the sourceDecision events of the Field Nodes before it, in schema order.
C4_ThrowAbortsWalk ==
    /\ SomeFieldMissing => (pc # "returned" /\ returned = Absent)
    /\ pc = "thrown" =>
         /\ returned = Absent
         /\ toStringOut = None /\ debugOut = Absent
         /\ Len(resolved) = idx - 1
         /\ DecisionKeys(events) = FieldKeysUpTo(idx - 1)

\* The walk threw a missing-value error at a field that follows an already
\* resolved and recorded field.
C4_Witness ==
    /\ pc = "thrown"
    /\ IsMissingError(thrown)
    /\ Winner(FailingLeaf) = 0
    /\ Len(SourceDecisions(events)) >= 1

ObjectPaths ==
    UNION { {Dotted(SubSeq(Leaves[i].path, 1, n)) : n \in 1..(Len(Leaves[i].path) - 1)} :
            i \in 1..Len(Leaves) }

C7_PathFidelity ==
    /\ DecisionKeys(events) = FieldKeysUpTo(Len(resolved))
    /\ \A i \in Visited \cap FieldIndexes :
         /\ Dotted(Leaves[i].path) \in DOMAIN sources
         /\ Leaves[i].path = <<"a", "b", "c">> =>
              ("a.b.c" \in DOMAIN sources /\ events[1].key = "a.b.c")
         /\ Leaves[i].path = <<"db", "host">> =>
              ("db.host" \in DOMAIN sources /\ EventOf(events, "db.host").picked = sources["db.host"])
    /\ pc = "thrown" =>
         /\ thrown.path = Dotted(FailingLeaf.path)
         /\ thrown.message[2] = Dotted(FailingLeaf.path)
         /\ FailingLeaf.path = <<"a", "b", "c">> => thrown.path = "a.b.c"
         /\ FailingLeaf.path = <<"db", "pass">> => thrown.path = "db.pass"

\* A field three Object Nodes deep was resolved and recorded under "a.b.c".
C7_Witness ==
    /\ pc = "returned"
    /\ Leaves[1].path = <<"a", "b", "c">>
    /\ DOMAIN returned.sources = {"a.b.c"}
    /\ returned.diagnostics[1].key = "a.b.c"

\* C8: a Field Node none of whose six sources is defined is never resolved;
\* the walk throws a ConfigError with the field path and the field's
\* sensitive flag, whose message shows "[REDACTED]" for a sensitive field and
\* "undefined" otherwise.
C8_MissingValueError ==
    /\ \A i \in Visited \cap FieldIndexes : Winner(Leaves[i]) # 0
    /\ (pc = "thrown" /\ Winner(FailingLeaf) = 0) =>
         /\ thrown.name = "ConfigError"
         /\ thrown.path = Dotted(FailingLeaf.path)
         /\ thrown.sensitive = Sensitive(FailingLeaf)
         /\ thrown.message =
              <<"Missing required config at '", Dotted(FailingLeaf.path), "' (value: ",
                IF Sensitive(FailingLeaf) THEN "[REDACTED]" ELSE "undefined", ")">>

\* A sensitive field with a secret-file reference but no readable file and no
\* other candidate made the walk throw.
C8_Witness ==
    /\ pc = "thrown"
    /\ Winner(FailingLeaf) = 0
    /\ Sensitive(FailingLeaf)
    /\ Declared(FailingLeaf, "secretFile")

\* C9: when the validator rejects the winning value the walk throws a
\* ConfigError with the field path, the validator's first issue and the
\* redacted-or-plain offending value; when it accepts, the resolved leaf is
\* the validator's output.
C9_ValidationOutcome ==
    /\ (pc = "thrown" /\ Winner(FailingLeaf) # 0) =>
         LET v == Candidates(FailingLeaf)[Winner(FailingLeaf)].value
             r == safeParse(FailingLeaf.node, v)
         IN /\ ~r.success
            /\ thrown.name = "ConfigError"
            /\ thrown.path = Dotted(FailingLeaf.path)
            /\ thrown.sensitive = Sensitive(FailingLeaf)
            /\ thrown.message =
                 <<"Invalid config at '", Dotted(FailingLeaf.path), "': ", r.issue,
                   " (value: ",
                   IF Sensitive(FailingLeaf) THEN "[REDACTED]" ELSE JSONstringify(v), ")">>
    /\ \A i \in Visited \cap FieldIndexes :
         LET v == Candidates(Leaves[i])[Winner(Leaves[i])].value
             r == safeParse(Leaves[i].node, v)
         IN /\ r.success
            /\ resolved[i].value = r.data
            /\ (Leaves[i].node.type = "coerceNumber" /\ v = Str("")) =>
                 resolved[i].value = Num("0")
            /\ pc = "returned" => PathReduce(Leaves[i].path, returned.value) = r.data

\* A number field took the string of its env var, the validator rejected it,
\* and the message shows the plain offending value.
C9_Witness ==
    /\ pc = "thrown"
    /\ FailingLeaf.node.type = "number"
    /\ Winner(FailingLeaf) = 2
    /\ thrown.message[6] = "\"7\""

Fails(leaf) ==
    /\ IsField(leaf)
    /\ \/ Winner(leaf) = 0
       \/ ~safeParse(leaf.node, Candidates(leaf)[Winner(leaf)].value).success

\* The position, in walk order, of the first leaf that fails; 0 when none does.
FirstFailure ==
    LET failing == {i \in 1..Len(Leaves) : Fails(Leaves[i])}
    IN IF failing = {} THEN 0 ELSE CHOOSE i \in failing : \A j \in failing : i <= j

\* What holds once an error has been thrown: it is the error of the first
\* failing Field Node; no leaf from that one onward is resolved, recorded or in
\* the source map; the caller holds no result.
AbortedAtFirstFailure ==
    thrown # Absent =>
      /\ pc = "thrown"
      /\ FirstFailure # 0
      /\ idx = FirstFailure
      /\ thrown.path = Dotted(Leaves[FirstFailure].path)
      /\ Len(resolved) = FirstFailure - 1
      /\ \A i \in FirstFailure..Len(Leaves) :
           /\ Dotted(Leaves[i].path) \notin Range(DecisionKeys(events))
           /\ Dotted(Leaves[i].path) \notin DOMAIN sources
      /\ returned = Absent
      /\ toStringOut = None
      /\ debugOut = Absent

\* C11: the first Field Node failure, in schema-declared depth-first order,
\* aborts the walk: no Field Node after the failing one is looked up, validated
\* or recorded, nothing happens after the throw, and the caller receives
\* neither a resolved tree nor a source map.
C11_FirstFailureAborts ==
    /\ [](AbortedAtFirstFailure /\ (FirstFailure # 0 => returned = Absent))
    /\ [][thrown # Absent => UNCHANGED walkVars]_vars

\* The walk threw at port, the first field, while db.host further on had a
\* defined candidate that was never looked at.
C11_Witness ==
    /\ pc = "thrown"
    /\ schema = ServiceSchema
    /\ thrown.path = "port"
    /\ Winner(Leaves[3]) # 0
    /\ Leaves[3].path = <<"db", "host">>
    /\ events = <<>>

\* The Source Tags a field can be reported under: they are fixed by the
\* schema metadata, the secrets base path and the config path label.
TagVocabulary(leaf) ==
    {Candidates(leaf)[j].tag : j \in {k \in 1..6 : Candidates(leaf)[k].applies}}

LeafAt(key) == Leaves[CHOOSE i \in FieldIndexes : Dotted(Leaves[i].path) = key]

\* Ways of replacing every candidate value by a different one while keeping
\* it defined: 1 makes strings non-numeric, 2 makes them numeric.
Revaluations == {1, 2}

RECURSIVE Revalue(_, _)
Revalue(v, t) ==
    IF IsObject(v) THEN Obj([k \in DOMAIN v[2] |-> Revalue(v[2][k], t)])
    ELSE IF v[1] = "string" THEN Str(IF t = 1 THEN v[2] \o "~"
                                     ELSE IF v[2] = "8080" THEN "7" ELSE "8080")
    ELSE IF v[1] = "number" THEN Num(IF v[2] = "7" THEN "8080" ELSE "7")
    ELSE v

RevalueOptions(opts, t) ==
    [opts EXCEPT !.override = Revalue(@, t), !.fileValues = Revalue(@, t),
                 !.initialValues = Revalue(@, t),
                 !.env = [n \in DOMAIN opts.env |-> Revalue(opts.env[n], t)]]

RevalueFiles(files, t) ==
    [p \in DOMAIN files |-> IF t = 1 THEN <<"other", "\n">> ELSE <<" ", "3000">>]

\* The same call on bundles with the same defined/undefined pattern and
\* other values.
TwinRun(t) ==
    resolveValues(schema, RevalueOptions(options, t), RevalueFiles(fs, t), <<>>)

\* C12: sourceDecision events and the source map hold source identifiers
\* only, never candidate values: every picked, tried and source map entry is
\* one of the field's Source Tags, an event has no other content, and two
\* successful resolutions whose bundles differ only in the values (same
\* defined/undefined pattern) yield the same source map and diagnostics.
C12_IdentifiersOnly ==
    /\ \A j \in 1..Len(events) :
         /\ DOMAIN events[j] = {"type", "key", "picked", "tried"}
         /\ events[j].picked \in TagVocabulary(LeafAt(events[j].key))
         /\ Range(events[j].tried) \subseteq TagVocabulary(LeafAt(events[j].key))
    /\ \A k \in DOMAIN sources : sources[k] \in TagVocabulary(LeafAt(k))
    /\ pc = "returned" =>
         \A t \in Revaluations :
           ~TwinRun(t).threw =>
             /\ TwinRun(t).sources = returned.sources
             /\ TwinRun(t).diagnostics = returned.diagnostics

\* A sensitive field was resolved from its secret file, and the same call on
\* a file with another content succeeds with another resolved value.
C12_Witness ==
    /\ pc = "returned"
    /\ \E i \in FieldIndexes :
         /\ Sensitive(Leaves[i])
         /\ Winner(Leaves[i]) = 3
         /\ resolved[i].value = Str("hunter2")
    /\ ~TwinRun(1).threw
    /\ TwinRun(1).value # returned.value
    /\ Len(returned.diagnostics) >= 1

\* The event an add* call must leave in the collector, read off the call.
ExpectedEvent(call) ==
    IF call.op = "addConfigPath"
    THEN [type |-> "configPath", picked |-> call.args[1], candidates |-> call.args[2],
          reason |-> call.args[3]]
    ELSE IF call.op = "addLoader"
    THEN (IF call.args[3] = Undefined
          THEN [type |-> "loader", format |-> call.args[1], used |-> call.args[2]]
          ELSE [type |-> "loader", format |-> call.args[1], used |-> call.args[2],
                reason |-> call.args[3][2]])
    ELSE IF call.op = "addSourceDecision"
    THEN [type |-> "sourceDecision", key |-> call.args[1], picked |-> call.args[2],
          tried |-> call.args[3]]
    ELSE (IF call.args[2] = Undefined
          THEN [type |-> "note", message |-> call.args[1]]
          ELSE [type |-> "note", message |-> call.args[1], meta |-> call.args[2]])

ExpectedEvents == [i \in 1..Len(callLog) |-> ExpectedEvent(callLog[i])]

\* What the caller reads through a returned array.
Contents(arr) ==
    [j \in 1..Len(arr) |-> IF arr[j] = Foreign THEN [foreign |-> TRUE] ELSE events[arr[j]]]

LatestSnapshot == Contents(heap[snapshots[Len(snapshots)]])

\* C13: getEvents() returns a defensive copy: two calls never return the same
\* reference, and no mutation a caller performs on a returned snapshot changes
\* the events the recorder holds or the content of any later snapshot.
C13_DefensiveCopy ==
    /\ [](\A k1, k2 \in 1..Len(snapshots) : k1 # k2 => snapshots[k1] # snapshots[k2])
    /\ [][callLog' = callLog => events' = events]_vars
    /\ [][Len(snapshots') > Len(snapshots) => LatestSnapshot' = ExpectedEvents]_vars

\* No field of the event has been assigned to from outside.
Untampered(e) == Assigned(e) # e

EventType(op) ==
    IF op = "addConfigPath" THEN "configPath"
    ELSE IF op = "addLoader" THEN "loader"
    ELSE IF op = "addSourceDecision" THEN "sourceDecision"
    ELSE "note"

\* C14: the collector is append-only: it holds one event per add* call, in
\* call order; each add* call pushes exactly the event of that call and leaves
\* the earlier events unchanged and in place; getEvents() lists every event
\* once, in that order, and changes nothing.
C14_AppendOnly ==
    /\ [](/\ Len(events) = Len(callLog)
          /\ \A i \in 1..Len(events) :
               /\ events[i].type = EventType(callLog[i].op)
               /\ Untampered(events[i]) => events[i] = ExpectedEvent(callLog[i])
               /\ getEvents(events)[i] = events[i])
    /\ [][callLog' # callLog =>
            /\ Len(callLog') = Len(callLog) + 1
            /\ SubSeq(callLog', 1, Len(callLog)) = callLog
            /\ Len(events') = Len(events) + 1
            /\ SubSeq(events', 1, Len(events)) = events
            /\ events'[Len(events')] = ExpectedEvent(callLog'[Len(callLog')])]_vars
    /\ [][Len(snapshots') > Len(snapshots) =>
            /\ heap'[snapshots'[Len(snapshots')]] = [i \in 1..Len(events) |-> i]
            /\ events' = events]_vars

\* Three add* calls of three kinds were made, one of them an addLoader with a
\* reason, and a snapshot taken afterwards lists the three events.
C14_Witness ==
    /\ pc = "collector"
    /\ Len(callLog) = 3
    /\ callLog[1].op = "addConfigPath"
    /\ callLog[2].op = "addLoader"
    /\ callLog[2].args[3] # Undefined
    /\ callLog[3].op = "addNote"
    /\ Len(snapshots) >= 1
    /\ LatestSnapshot = ExpectedEvents
    /\ Len(LatestSnapshot) = 3

\* C15: a successful resolveValues call records exactly one sourceDecision
\* event per Field Node, in schema-declared depth-first order, and the picked
\* tag of each event is the source map entry of the same field path.
C15_OneDecisionPerField ==
    pc = "returned" =>
      LET ds == SourceDecisions(returned.diagnostics) IN
      /\ Len(ds) = Cardinality(FieldIndexes)
      /\ Len(returned.diagnostics) = Len(ds)
      /\ DecisionKeys(returned.diagnostics) = FieldKeysUpTo(Len(Leaves))
      /\ \A j \in 1..Len(ds) :
           /\ ds[j].key \in DOMAIN returned.sources
           /\ ds[j].picked = returned.sources[ds[j].key]
      /\ schema = ServiceSchema =>
           DecisionKeys(returned.diagnostics) = <<"port", "db.host", "db.pass">>

\* The three fields of the service schema were resolved from three different
\* sources and recorded in schema order.
C15_Witness ==
    /\ pc = "returned"
    /\ schema = ServiceSchema
    /\ Len(returned.diagnostics) = 3
    /\ returned.diagnostics[1].picked = "default"
    /\ returned.diagnostics[2].picked = "env:DB_HOST"
    /\ returned.diagnostics[3].picked = "secretFile:/secrets/pw"

RECURSIVE NodeAt(_, _)
\* The schema node at a path.
NodeAt(node, path) ==
    IF Len(path) = 0 THEN node ELSE NodeAt(node.shape[path[1]], Tail(path))

\* The paths of the Object Nodes below the root.
NestedObjectPaths ==
    UNION { {SubSeq(Leaves[i].path, 1, n) : n \in 1..(Len(Leaves[i].path) - 1)} :
            i \in 1..Len(Leaves) }

\* C16: the object resolveValues returns has, at every level, exactly the
\* schema's keys as enumerable keys; the source map, the diagnostics list and
\* the accessors toString, toSourceString, getDiagnostics and toDebugObject
\* are non-enumerable, non-writable properties, never among the enumerable keys.
C16_SchemaKeysEnumerable ==
    pc = "returned" =>
      /\ ObjectKeys(returned.props) = Range(schema.keys)
      /\ \A p \in NestedObjectPaths :
           /\ IsObject(PathReduce(p, returned.value))
           /\ DOMAIN PathReduce(p, returned.value)[2] = Range(NodeAt(schema, p).keys)
      /\ \A n \in Range(Attached) :
           /\ n \in DOMAIN returned.props
           /\ ~returned.props[n].enumerable
           /\ ~returned.props[n].writable
           /\ n \notin ObjectKeys(returned.props)

\* The leaf a debug view must show for the i-th leaf of the schema.
DebugLeaf(i) ==
    IF isZodLiteral(Leaves[i].node)
    THEN [value |-> Leaves[i].node.values[1], source |-> Str("literal")]
    ELSE [value |-> IF Sensitive(Leaves[i]) THEN Str("[REDACTED]") ELSE resolved[i].value,
          source |-> Str(Candidates(Leaves[i])[Winner(Leaves[i])].tag)]

NoOverride(leaf) == PathReduce(leaf.path, options.override) = Undefined

\* The field's env var is set to "" and no override is given for the field.
EmptyEnvVar(leaf) ==
    /\ NoOverride(leaf)
    /\ Declared(leaf, "env")
    /\ leaf.node.meta.env[2] \in DOMAIN options.env
    /\ options.env[leaf.node.meta.env[2]] = Str("")

\* The field's secret file exists and holds whitespace only, and neither an
\* override nor the field's env var is defined.
EmptySecretFile(leaf) ==
    /\ NoOverride(leaf)
    /\ Declared(leaf, "env") =>
         \/ leaf.node.meta.env[2] \notin DOMAIN options.env
         \/ options.env[leaf.node.meta.env[2]] = Undefined
    /\ Declared(leaf, "secretFile")
    /\ PathText(SecretLocation(leaf)) \in DOMAIN fs
    /\ \A j \in 1..Len(fs[PathText(SecretLocation(leaf))]) :
         fs[PathText(SecretLocation(leaf))][j] \in {" ", "\n"}

\* What the field must then come out as: the validated empty string under
\* the given tag, with nothing of lower priority tried, or -- when the
\* validator rejects "" -- an invalid-value error, never a fallback.
StopsAtEmpty(i, tag) ==
    /\ i \in Visited =>
         /\ safeParse(Leaves[i].node, Str("")).success
         /\ resolved[i].value = safeParse(Leaves[i].node, Str("")).data
         /\ sources[Dotted(Leaves[i].path)] = tag
         /\ EventOf(events, Dotted(Leaves[i].path)).picked = tag
         /\ LET tried == EventOf(events, Dotted(Leaves[i].path)).tried
            IN /\ tried[Len(tried)] = tag
               /\ Range(tried) \cap {Candidates(Leaves[i])[j].tag : j \in 4..6} = {}
    /\ (pc = "thrown" /\ idx = i) =>
         /\ IsInvalidError(thrown)
         /\ ~safeParse(Leaves[i].node, Str("")).success
         /\ ~Sensitive(Leaves[i]) => thrown.message[6] = "\"\""

\* C18: an empty string counts as a defined value: when a field's secret
\* file is empty after trimming, or its env var is set to "", the search stops
\* at that source; the file, initial and default values are not used and the
\* recorded source is the secretFile (or env) tag.
C18_EmptyStringIsDefined ==
    \A i \in FieldIndexes :
      /\ EmptyEnvVar(Leaves[i]) =>
           StopsAtEmpty(i, "env:" \o Leaves[i].node.meta.env[2])
      /\ EmptySecretFile(Leaves[i]) =>
           StopsAtEmpty(i, "secretFile:" \o PathText(SecretLocation(Leaves[i])))

\* A string field with a whitespace-only secret file was resolved to "" from
\* the secret file although a file value and a default were there.
C18_Witness ==
    /\ pc = "returned"
    /\ \E i \in FieldIndexes :
         /\ EmptySecretFile(Leaves[i])
         /\ PathReduce(Leaves[i].path, options.fileValues) = Str("fv")
         /\ Leaves[i].node.meta.default = Str("dflt")
         /\ resolved[i].value = Str("")
         /\ returned.sources[Dotted(Leaves[i].path)] = "secretFile:/secrets/sec"
         /\ PathReduce(Leaves[i].path, returned.value) = Str("")

\* What a call on these inputs gives when nothing else has ever run.
Alone(opts, files) == resolveValues(schema, opts, files, <<>>)

\* The outcome matches that of the call run alone on the same inputs.
SameAsAlone(outcome, opts, files) ==
    LET alone == Alone(opts, files) IN
    IF alone.threw
    THEN outcome = alone.error
    ELSE /\ "value" \in DOMAIN outcome
         /\ outcome.value = alone.value
         /\ outcome.sources = alone.sources
         /\ outcome.diagnostics = alone.diagnostics
         /\ Len(outcome.diagnostics) = Cardinality(FieldIndexes)

\* C19: resolveValues calls are independent: a call changes neither the
\* schema nor a candidate bundle, and with a recorder of its own each call's
\* resolved tree, source map and diagnostics (or error) are those of the call
\* run alone on its inputs, whatever calls ran before it; the outcomes of
\* earlier calls stay as they were, and no event of one call shows in
\* another call's diagnostics.
C19_CallsIndependent ==
    /\ [](/\ pc = "returned" => SameAsAlone(returned, options, fs)
          /\ pc = "thrown" => SameAsAlone(thrown, options, fs)
          /\ \A k \in 1..Len(prior) : SameAsAlone(prior[k].outcome, prior[k].options, prior[k].fs))
    /\ [][/\ schema' = schema
          /\ fs' = fs
          /\ pc # "idle" /\ pc' # "idle" => options' = options
          /\ \A k \in 1..Len(prior) : prior'[k] = prior[k]]_vars

\* A third call succeeded with three events of its own after one call that
\* threw and one that succeeded on other bundles.
C19_Witness ==
    /\ pc = "returned"
    /\ Len(prior) = 2
    /\ "name" \in DOMAIN prior[1].outcome
    /\ prior[1].outcome.name = "ConfigError"
    /\ "value" \in DOMAIN prior[2].outcome
    /\ Len(prior[2].outcome.diagnostics) = 3
    /\ prior[2].options # options
    /\ Len(returned.diagnostics) = 3
    /\ returned.sources # prior[2].outcome.sources

\* What the caller of resolve() passed as the two places a config path can
\* come from; a path counts as given when it is a non-empty string.
OptionPath == resolveOptions.configPath

EnvPath ==
    IF "CONFIG_PATH" \in DOMAIN resolveOptions.env
    THEN resolveOptions.env["CONFIG_PATH"] ELSE Undefined

Given(p) == p \notin {Undefined, Str("")}

ChosenPath ==
    IF Given(OptionPath) THEN OptionPath ELSE IF Given(EnvPath) THEN EnvPath ELSE Null

CandidatesSet ==
    (IF Given(OptionPath) THEN <<"option:" \o OptionPath[2]>> ELSE <<>>)
    \o (IF Given(EnvPath) THEN <<"env:" \o EnvPath[2]>> ELSE <<>>)

\* C20: once resolve() has chosen, the config path it goes on with is
\* options.configPath when that was given and otherwise env.CONFIG_PATH, and
\* the first event of its collector is a configPath event whose picked is the
\* chosen path and whose candidates are option:<path> and/or env:<path>, one
\* for each of the two that was set.
C20_ConfigPathChoice ==
    pc # "resolve" =>
      /\ Len(events) >= 1
      /\ events[1].type = "configPath"
      /\ events[1].picked = ChosenPath
      /\ events[1].candidates = CandidatesSet
      /\ (ChosenPath # Null => options.configPath = ChosenPath)
      /\ (ChosenPath = Null => ~Given(options.configPath))

\* Neither options.configPath nor env.CONFIG_PATH names a file.
NeitherSet == ~Given(OptionPath) /\ ~Given(EnvPath)

\* What the caller of resolve() offers a field apart from the config file,
\* highest priority first: override, env var, secret file, initial, default.
Remaining(leaf) ==
    << PathReduce(leaf.path, resolveOptions.override),
       IF Declared(leaf, "env") /\ leaf.node.meta.env[2] \in DOMAIN resolveOptions.env
       THEN resolveOptions.env[leaf.node.meta.env[2]] ELSE Undefined,
       IF Declared(leaf, "secretFile")
       THEN loadSecretFile(SecretLocation(leaf), fs) ELSE Undefined,
       PathReduce(leaf.path, resolveOptions.initialValues),
       leaf.node.meta.default >>

\* The first defined of them, undefined when there is none.
FirstRemaining(leaf) ==
    LET defined == SelectSeq(Remaining(leaf), LAMBDA v : v # Undefined)
    IN IF Len(defined) = 0 THEN Undefined ELSE defined[1]

Rejected(leaf) ==
    /\ FirstRemaining(leaf) # Undefined
    /\ ~safeParse(leaf.node, FirstRemaining(leaf)).success

\* What C21 says of a call without a config path, up to the reason for a throw.
SkipsFileLoading ==
    /\ events[1].type = "configPath"
    /\ events[1].picked = Null
    /\ \A i \in 1..Len(events) : events[i].type # "loader"
    /\ pc # "loading"
    /\ options.fileValues = Undefined
    /\ pc = "returned" =>
         \A i \in FieldIndexes :
           /\ FirstRemaining(Leaves[i]) # Undefined
           /\ PathReduce(Leaves[i].path, returned.value)
                = safeParse(Leaves[i].node, FirstRemaining(Leaves[i])).data
           /\ returned.sources[Dotted(Leaves[i].path)] \notin {"file", "file:"}

FailedLoading == pc = "thrown" /\ idx = 0

LastEvent == events[Len(events)]

\* C22: when resolve() fails during file loading the ConfigError it throws
\* carries the diagnostics recorded so far and no field is resolved: the trace
\* holds no sourceDecision event and ends with a loader event, with used =
\* false and no loader invoked when the extension has no registered loader,
\* with used = true when the loader was invoked.
C22_LoadFailureCarriesTrace ==
    FailedLoading =>
      /\ thrown.name = "ConfigError"
      /\ "diagnostics" \in DOMAIN thrown
      /\ thrown.diagnostics = events
      /\ returned = Absent
      /\ resolved = <<>> /\ sources = EmptyMap
      /\ SourceDecisions(events) = <<>>
      /\ Len(events) = 2
      /\ LastEvent.type = "loader"
      /\ LastEvent.used = (loaderCalls # <<>>)
      /\ LastEvent.used = (getLoader(loaders, LastEvent.format) # Undefined)

\* The calls made on the registry since the last clearLoaders().
RECURSIVE SinceClear(_)
SinceClear(log) ==
    IF Len(log) = 0 THEN <<>>
    ELSE IF log[Len(log)].op = "clearLoaders" THEN <<>>
    ELSE Append(SinceClear(SubSeq(log, 1, Len(log) - 1)), log[Len(log)])

\* The registrations among them made under an extension, whatever its case.
RegisteredUnder(extension) ==
    SelectSeq(SinceClear(callLog),
              LAMBDA c : toLowerCase(c.args[1]) = toLowerCase(extension))

\* C23: after any sequence of registerLoader and clearLoaders calls,
\* getLoader(ext) is the loader most recently registered under the lower-cased
\* ext since the last clearLoaders, or undefined when there is none, whatever
\* the case ext is written in; and getSupportedExtensions lists, once each,
\* exactly the lower-cased extensions that have a loader.
C23_RegistryLookup ==
    pc = "registry" =>
      /\ \A extension \in ExtensionPool :
           LET regs == RegisteredUnder(extension) IN
           /\ getLoader(loaders, extension)
                = IF Len(regs) = 0 THEN Undefined ELSE Str(regs[Len(regs)].args[2])
           /\ getLoader(loaders, extension) = getLoader(loaders, toLowerCase(extension))
      /\ LET listed == getSupportedExtensions(loaders) IN
         /\ Range(listed) = { toLowerCase(e) : e \in { x \in ExtensionPool : Len(RegisteredUnder(x)) > 0 } }
         /\ Cardinality(Range(listed)) = Len(listed)

\* After a clearLoaders, ".YAML" was registered with one loader and ".yaml"
\* with another: the lookup under ".YAML" gives the second.
C23_Witness ==
    /\ pc = "registry"
    /\ Len(callLog) = 3
    /\ callLog[1].op = "clearLoaders"
    /\ callLog[2].args = <<".YAML", "loader1">>
    /\ callLog[3].args = <<".yaml", "loader2">>
    /\ getLoader(loaders, ".YAML") = Str("loader2")
    /\ getSupportedExtensions(loaders) = <<".yaml">>

\* The config file has been loaded and handed to resolveValues.
FileLoaded == ~IsUndefined(options.fileValues)

EventTypes(evs) == [i \in 1..Len(evs) |-> evs[i].type]

\* C26: in the diagnostics of a successful resolve() call with a config file
\* the configPath event is first, the loader event second and the
\* sourceDecision events, one per field, follow; until the file has been
\* loaded the collector holds no sourceDecision event.
C26_TraceOrder ==
    /\ (pc \in {"resolve", "loading"}) => SourceDecisions(events) = <<>>
    /\ (FileLoaded /\ pc \in {"walking", "returned"}) =>
         /\ Len(events) >= 2
         /\ events[1].type = "configPath"
         /\ events[2].type = "loader" /\ events[2].used
         /\ \A i \in 3..Len(events) : events[i].type = "sourceDecision"
    /\ (FileLoaded /\ pc = "returned") =>
         /\ EventTypes(returned.diagnostics)
              = <<"configPath", "loader">>
                \o [i \in 1..Cardinality(FieldIndexes) |-> "sourceDecision"]
         /\ returned.diagnostics = events

\* resolve() with configPath "config.json" returned: four events, host and
\* port taken from the file.
C26_Witness ==
    /\ pc = "returned"
    /\ FileLoaded
    /\ OptionPath = Str("config.json")
    /\ Len(returned.diagnostics) = 4
    /\ returned.diagnostics[3].picked = "file:config.json"
    /\ returned.sources["host"] = "file:config.json"

\* The signals the process has emitted so far.
Emitted == run.arrived - Len(run.pending)

\* A delivered signal is about to be emitted to a registered shutdown.
SignalDuringRun ==
    /\ run.phase = "listening"
    /\ run.pending # <<>>
    /\ Head(run.pending) \in run.listeners

\* C24: during run() a delivered SIGTERM or SIGINT leads to server.close()
\* being called; onShutdown is invoked only when a close callback fires, the
\* run() promise resolves only once onShutdown has been invoked, and neither
\* close nor the resolution happens before a signal has been emitted.
C24_GracefulShutdown ==
    /\ [](/\ run.onShutdownCalls <= run.closed
          /\ run.closed <= run.closeCalls
          /\ run.closeCalls <= Emitted
          /\ run.promise = "resolved" => (run.onShutdownCalls >= 1 /\ Emitted >= 1))
    /\ [][/\ run'.onShutdownCalls > run.onShutdownCalls =>
               (run.closeCallbacks > 0 /\ run'.closed > run.closed)
          /\ (run.promise # "resolved" /\ run'.promise = "resolved") =>
               run'.onShutdownCalls >= 1]_vars
    /\ \A n \in 0..MaxSignals :
         (SignalDuringRun /\ run.closeCalls = n) ~> (run.closeCalls > n)

\* One SIGINT was delivered to a listening callback-style server that had
\* called onReady: close was called, its callback ran onShutdown and run()
\* resolved.
C24_Witness ==
    /\ run.server = "callback"
    /\ run.promise = "resolved"
    /\ run.arrived = 1
    /\ run.closeCalls = 1
    /\ run.closed = 1
    /\ run.onShutdownCalls = 1
    /\ run.onReadyCalls = 1
    /\ run.listeners = {"SIGTERM"}

\* listen has succeeded: its callback was called or its Promise fulfilled.
ListenSucceeded ==
    \/ run.phase = "listening" /\ run.server \in {"callback", "both"} /\ ~run.listenCallback
    \/ run.listenPromise = "fulfilled"

\* C25: during run() onReady is called once, and only once listen has
\* succeeded, whether the server calls the listen callback or fulfils a
\* Promise it returned; when that Promise is rejected run() is rejected with
\* its error and onReady is not called.
C25_ReadyOnce ==
    /\ [](/\ run.onReadyCalls <= 1
          /\ ListenSucceeded <=> run.onReadyCalls >= 1
          /\ run.listenPromise = "rejected" =>
               (run.promise = "rejected" /\ run.error = "EADDRINUSE" /\ run.onReadyCalls = 0))
    /\ [][run'.onReadyCalls > run.onReadyCalls => (~ListenSucceeded /\ ListenSucceeded')]_vars

\* C30: for one run(), server.close() and onShutdown are each invoked at most
\* once, whatever SIGTERM and SIGINT signals are delivered and whenever,
\* before or after the run() promise has settled.
C30_ShutdownOnce ==
    /\ run.closeCalls <= 1
    /\ run.onShutdownCalls <= 1

\* C27: the dot-joined Field Path identifies a leaf: the Field Nodes the walk
\* has resolved have as many source map keys and as many sourceDecision keys
\* as there are of them, also when a schema key holds a dot, and so has the
\* source map of the returned object.
C27_PathIdentifiesLeaf ==
    LET visited == Visited \cap FieldIndexes IN
    /\ pc \in {"walking", "returned"} =>
         /\ Cardinality(DOMAIN sources) = Cardinality(visited)
         /\ Cardinality(Range(DecisionKeys(events))) = Cardinality(visited)
    /\ pc = "returned" =>
         Cardinality(DOMAIN returned.sources) = Cardinality(FieldIndexes)

\* The first defined candidate of the field is one its validator rejects.
WinnerRejected(leaf) ==
    /\ Winner(leaf) # 0
    /\ ~safeParse(leaf.node, Candidates(leaf)[Winner(leaf)].value).success

\* A candidate of lower priority than the winner that the validator accepts.
AcceptableBelow(leaf) ==
    { k \in Defined(leaf) : k > Winner(leaf)
                            /\ safeParse(leaf.node, Candidates(leaf)[k].value).success }

\* C28: validation never causes fallback: a field whose first defined
\* candidate is rejected by the validator is never resolved, whatever
\* acceptable values lower-priority sources hold; the walk stops at it, the
\* call throws the validation error and returns nothing, and neither a
\* sourceDecision event nor a source map entry exists for the field.
C28_NoFallbackOnRejection ==
    \A i \in FieldIndexes :
      WinnerRejected(Leaves[i]) =>
        /\ i \notin Visited
        /\ idx <= i
        /\ pc # "returned" /\ returned = Absent
        /\ Dotted(Leaves[i].path) \notin DOMAIN sources
        /\ Dotted(Leaves[i].path) \notin Range(DecisionKeys(events))
        /\ (pc = "thrown" /\ idx = i) =>
             /\ IsInvalidError(thrown)
             /\ thrown.path = Dotted(Leaves[i].path)

\* The walk threw at a number field whose env var holds a string although the
\* field's default is a number the validator accepts.
C28_Witness ==
    /\ pc = "thrown"
    /\ IsInvalidError(thrown)
    /\ FailingLeaf.node.type = "number"
    /\ Winner(FailingLeaf) = 2
    /\ 6 \in AcceptableBelow(FailingLeaf)

\* The place of a Source Tag in the priority order of its field.
Rank(leaf, tag) == CHOOSE k \in 1..6 : Candidates(leaf)[k].tag = tag

\* C29: in every sourceDecision event the tried list is non-empty, names
\* sources of the field in strictly descending priority (override > env >
\* secretFile > file > initial > default, hence without duplicates) and ends
\* with the picked source, which is the first defined one: every source
\* tried before it was undefined.
C29_TriedOrdered ==
    \A n \in 1..Len(events) :
      events[n].type = "sourceDecision" =>
        LET e == events[n]
            leaf == LeafAt(e.key)
        IN /\ Len(e.tried) >= 1
           /\ \A m \in 1..Len(e.tried) :
                \E k \in 1..6 : Candidates(leaf)[k].tag = e.tried[m]
           /\ \A m \in 1..(Len(e.tried) - 1) :
                /\ Rank(leaf, e.tried[m]) < Rank(leaf, e.tried[m + 1])
                /\ Candidates(leaf)[Rank(leaf, e.tried[m])].value = Undefined
           /\ e.tried[Len(e.tried)] = e.picked
           /\ Rank(leaf, e.picked) = Winner(leaf)

\* A field was resolved from its default after its env var and its secret
\* file were tried and found undefined.
C29_Witness ==
    \E n \in 1..Len(events) :
      /\ events[n].type = "sourceDecision"
      /\ events[n].picked = "default"
      /\ Len(events[n].tried) = 3
      /\ events[n].tried[1] = "env:C_ENV"

====
